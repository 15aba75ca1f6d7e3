------------------------- MODULE ParallelMoveProofs -------------------------
(***************************************************************************)
(* x64_parallel_move performs every list of moves as if they happened at   *)
(* the same time. The heart is that a pass without progress leaves only    *)
(* cycles: each move left blocks on another, and destinations differ, so   *)
(* the moves left read exactly each other's destinations.                  *)
(***************************************************************************)
EXTENDS ParallelMove, FiniteSets, FunctionTheorems, FiniteSetTheorems, TLAPS

\* A move that is done put in its destination what was asked, and one that is
\* not done still reads what was asked
DoneIsRight == \A k \in 1..count : done[k] => holds[dst(k)] = moves[k].src
LeftIsReadable == \A k \in 1..count : ~done[k] => value(src[k]) = moves[k].src
SourcesKnown == \A k \in 1..count :
                   src[k] = moves[k].src \/ (phase # "memory" /\ src[k] \in Scratch)

\* Moves into memory are done before the passes begin, and no other
MemoryFirst == \A k \in 1..count :
                  /\ dst(k) \in Memory /\ (phase # "memory" \/ k < i) => done[k]
                  /\ phase = "memory" /\ done[k] => k < i

\* What pending and progress say of the part of the pass that is over
PassSoFar == /\ phase = "scan" /\ ~progress => \A k \in 1..count : k < i /\ ~done[k] => blocked(k)
             /\ phase = "scan" /\ ~pending => \A k \in 1..count : k < i => done[k]
             /\ phase = "over" => \A k \in 1..count : done[k]

OthersKept == \A p \in Places \ Scratch : (\A k \in 1..count : dst(k) # p) => holds[p] = p

MoveInv == /\ MovesTypeOK /\ DoneIsRight /\ LeftIsReadable /\ SourcesKnown
           /\ MemoryFirst /\ PassSoFar /\ OthersKept
-----------------------------------------------------------------------------
\* The facts of isMoveList about one list, taken apart
LEMMA ListFacts ==
    ASSUME isMoveList(moves)
    PROVE  /\ count \in Nat
           /\ \A k \in 1..count : /\ dst(k) \in Places \ Scratch
                                  /\ moves[k].src \in Operands \ Scratch
           /\ \A j, k \in 1..count : /\ j # k => dst(j) # dst(k)
                                     /\ dst(j) \in Memory => moves[k].src # dst(j)
<1> DEFINE Pairs == [dst : Places \ Scratch, src : Operands \ Scratch]
<1>1. moves \in Seq(Pairs)
  BY DEF isMoveList
<1>2. /\ Len(moves) \in Nat
      /\ \A k \in 1..Len(moves) : moves[k] \in Pairs
  <2> HIDE DEF Pairs
  <2> QED BY <1>1
<1>3. \A k \in 1..count : dst(k) \in Places \ Scratch /\ moves[k].src \in Operands \ Scratch
  BY <1>2 DEF count, dst
<1> QED BY <1>2, <1>3 DEF isMoveList, count, dst

\* In a finite set of moves where each one's destination is read by another of
\* them, and the destinations differ, each one reads the destination of another
LEMMA ReadersAreCycles ==
    ASSUME NEW L, IsFiniteSet(L), NEW reads, NEW writes,
           \A j, k \in L : j # k => writes[j] # writes[k],
           \A k \in L : \E j \in L : j # k /\ reads[j] = writes[k]
    PROVE  \A j \in L : \E k \in L : k # j /\ reads[j] = writes[k]
<1> DEFINE reader == [k \in L |-> CHOOSE j \in L : j # k /\ reads[j] = writes[k]]
<1>1. \A k \in L : reader[k] \in L /\ reader[k] # k /\ reads[reader[k]] = writes[k]
  OBVIOUS
<1>2. reader \in [L -> L]
  BY <1>1
<1> HIDE DEF reader
<1>3. \A j, k \in L : reader[j] = reader[k] => j = k
  BY <1>1
<1>4. reader \in Injection(L, L)
  BY <1>2, <1>3 DEF Injection, IsInjective
<1>5. reader \in Surjection(L, L)
  BY <1>4, FS_Injection
<1>6. \A j \in L : \E k \in L : reader[k] = j
  BY <1>5 DEF Surjection
<1>7. ASSUME NEW j \in L
      PROVE  \E k \in L : k # j /\ reads[j] = writes[k]
  <2>1. PICK k \in L : reader[k] = j
    BY <1>6
  <2>2. reader[k] # k /\ reads[reader[k]] = writes[k]
    BY <1>1
  <2> QED BY <2>1, <2>2
<1> QED BY <1>7

\* The comment "Only cycles of register to register moves remain" is true when
\* the code gets there
LEMMA OnlyCycles == MoveInv => OnlyCyclesRemain
<1> SUFFICES ASSUME MoveInv, passDone, pending, ~progress
             PROVE  \A j \in left : /\ \E k \in left : k # j /\ src[j] = dst(k)
                                    /\ src[j] \in Registers \ Scratch
  BY DEF OnlyCyclesRemain
<1> USE DEF MoveInv, MovesTypeOK
<1>1. count \in Nat /\ (\A k \in 1..count : dst(k) \in Places \ Scratch)
      /\ (\A j, k \in 1..count : j # k => dst(j) # dst(k))
  BY ListFacts
<1>2. IsFiniteSet(left)
  <2>1. left \in SUBSET (1..count)
    BY DEF left
  <2>2. IsFiniteSet(1..count)
    BY <1>1, FS_Interval
  <2> QED BY <2>1, <2>2, FS_Subset
<1>3. \A k \in left : \E j \in left : j # k /\ src[j] = dst(k)
  BY <1>1 DEF PassSoFar, passDone, left, blocked
<1>4. \A j, k \in left : j # k => dst(j) # dst(k)
  BY <1>1 DEF left
<1>5. \A j \in left : \E k \in left : k # j /\ src[j] = dst(k)
  <2> DEFINE writes == [k \in left |-> dst(k)]
  <2>1. \A k \in left : \E j \in left : j # k /\ src[j] = writes[k]
    BY <1>3
  <2>2. \A j, k \in left : j # k => writes[j] # writes[k]
    BY <1>4
  <2>3. \A j \in left : \E k \in left : k # j /\ src[j] = writes[k]
    <3> HIDE DEF writes, MoveInv, MovesTypeOK
    <3> QED BY ONLY <1>2, <2>1, <2>2, ReadersAreCycles
  <2> QED BY <2>3
<1>6. \A k \in left : dst(k) \in Registers \ Scratch
  BY <1>1 DEF left, MemoryFirst, passDone, Places
<1> QED BY <1>5, <1>6
-----------------------------------------------------------------------------
LEMMA MoveInit == Init => MoveInv
<1> SUFFICES ASSUME Init PROVE MoveInv
  OBVIOUS
<1>1. isMoveList(moves)
  BY MovesAssumption DEF Init
<1>2. /\ count \in Nat
      /\ \A k \in 1..count : dst(k) \in Places \ Scratch /\ moves[k].src \in Operands \ Scratch
  BY <1>1, ListFacts
<1>3. MovesTypeOK
  <2>1. src \in [1..count -> Operands]
    BY <1>2 DEF Init
  <2>2. done \in [1..count -> BOOLEAN] /\ pending \in BOOLEAN /\ progress \in BOOLEAN
    BY Zenon DEF Init
  <2>3. DOMAIN holds = Places /\ phase = "memory" /\ i \in 1..(count + 1)
    BY <1>2 DEF Init
  <2> QED BY <1>1, <2>1, <2>2, <2>3 DEF MovesTypeOK
<1>4. LeftIsReadable
  BY <1>2 DEF LeftIsReadable, Init, value, Operands
<1> QED
  BY <1>2, <1>3, <1>4
     DEF MoveInv, Init, DoneIsRight, SourcesKnown, MemoryFirst, PassSoFar, OthersKept, Places

\* A move that emits code changes its destination, and the scratch register
\* only on the way to memory: what the other moves wrote and read stays
LEMMA Emitted ==
    ASSUME MoveInv, i \in 1..count, ~done[i],
           x64_emit_move(dst(i), src[i]), isDone(i),
           moves' = moves, src' = src,
           dst(i) \in Memory => phase = "memory",
           \A j \in 1..count : j # i /\ ~done[j] => src[j] # dst(i)
    PROVE  /\ DOMAIN holds' = Places /\ done' \in [1..count -> BOOLEAN]
           /\ DoneIsRight' /\ LeftIsReadable' /\ OthersKept'
<1> USE DEF MoveInv, MovesTypeOK
<1>1. /\ count \in Nat
      /\ \A k \in 1..count : /\ dst(k) \in Places \ Scratch
                             /\ moves[k].src \in Operands \ Scratch
      /\ \A j, k \in 1..count : j # k => dst(j) # dst(k)
  BY ListFacts
<1>2. value(src[i]) = moves[i].src
  BY DEF LeftIsReadable
<1>3. R11 \in Places \ Immediates /\ R11 \in Scratch
  BY MachineAssumption DEF Scratch, Places, Registers
<1>4. /\ DOMAIN holds' = Places
      /\ holds'[dst(i)] = moves[i].src
      /\ \A p \in Places : p # dst(i) /\ (p = R11 => dst(i) \notin Memory) => holds'[p] = holds[p]
  BY <1>1, <1>2, <1>3 DEF x64_emit_move
<1>5. /\ done' \in [1..count -> BOOLEAN]
      /\ done'[i] /\ \A k \in 1..count : k # i => (done'[k] <=> done[k])
  BY DEF isDone
<1>6. DoneIsRight'
  BY <1>1, <1>3, <1>4, <1>5 DEF DoneIsRight, count, dst
<1>7. LeftIsReadable'
  <2> SUFFICES ASSUME NEW k \in 1..count, k # i, ~done[k]
               PROVE  value(src[k])' = moves[k].src
    BY <1>5 DEF LeftIsReadable, count
  <2>1. src[k] \in Operands /\ src[k] # dst(i)
    OBVIOUS
  <2>2. dst(i) \in Memory => src[k] # R11
    BY <1>1, <1>3 DEF SourcesKnown
  <2>3. value(src[k]) = moves[k].src
    BY DEF LeftIsReadable
  <2>4. src[k] \notin Immediates => holds'[src[k]] = holds[src[k]]
    BY <1>4, <2>1, <2>2 DEF Operands
  <2> QED BY <2>3, <2>4 DEF value
<1>8. OthersKept'
  BY <1>1, <1>3, <1>4 DEF OthersKept, count, dst
<1> QED BY <1>4, <1>5, <1>6, <1>7, <1>8

LEMMA ToMemoryStep == MoveInv /\ toMemory => MoveInv'
<1> SUFFICES ASSUME MoveInv, toMemory PROVE MoveInv'
  OBVIOUS
<1> USE DEF MoveInv, MovesTypeOK, toMemory
<1>1. /\ count \in Nat
      /\ \A k \in 1..count : moves[k].src \in Operands \ Scratch
      /\ \A j, k \in 1..count : dst(j) \in Memory => moves[k].src # dst(j)
  BY ListFacts
<1>2. i \in 1..count /\ moves' = moves /\ count' = count /\ \A k \in 1..count : dst(k)' = dst(k)
  BY <1>1 DEF count, dst
<1>3. \A j \in 1..count : src[j] # dst(i)
  BY <1>1, <1>2 DEF SourcesKnown
<1>4. ~done[i]
  BY <1>2 DEF MemoryFirst
<1>5. /\ DOMAIN holds' = Places /\ done' \in [1..count -> BOOLEAN]
      /\ DoneIsRight' /\ LeftIsReadable' /\ OthersKept'
  BY <1>2, <1>3, <1>4, Emitted
<1>6. MovesTypeOK'
  BY <1>1, <1>2, <1>5 DEF isMoveList
<1>7. done'[i] /\ \A k \in 1..count : k # i => (done'[k] <=> done[k])
  BY <1>2 DEF isDone
<1>8. MemoryFirst' /\ SourcesKnown' /\ PassSoFar'
  BY <1>1, <1>2, <1>7 DEF MemoryFirst, SourcesKnown, PassSoFar
<1> QED BY <1>5, <1>6, <1>8

LEMMA ReadyStep == MoveInv /\ moveReady => MoveInv'
<1> SUFFICES ASSUME MoveInv, moveReady PROVE MoveInv'
  OBVIOUS
<1> USE DEF MoveInv, MovesTypeOK, moveReady, atMove
<1>1. count \in Nat
  BY ListFacts
<1>2. i \in 1..count /\ moves' = moves /\ count' = count /\ \A k \in 1..count : dst(k)' = dst(k)
  BY <1>1 DEF count, dst
<1>3. dst(i) \notin Memory /\ \A j \in 1..count : j # i /\ ~done[j] => src[j] # dst(i)
  BY <1>2 DEF MemoryFirst, blocked
<1>4. /\ DOMAIN holds' = Places /\ done' \in [1..count -> BOOLEAN]
      /\ DoneIsRight' /\ LeftIsReadable' /\ OthersKept'
  BY <1>2, <1>3, Emitted
<1>5. MovesTypeOK'
  BY <1>1, <1>2, <1>4 DEF isMoveList
<1>6. done'[i] /\ \A k \in 1..count : k # i => (done'[k] <=> done[k])
  BY <1>2 DEF isDone
<1>7. MemoryFirst' /\ SourcesKnown' /\ PassSoFar'
  BY <1>2, <1>6 DEF MemoryFirst, SourcesKnown, PassSoFar
<1> QED BY <1>4, <1>5, <1>7

\* A move to itself is done without code. It blocked nothing but itself, as no
\* other move has its destination
LEMMA ItselfStep == MoveInv /\ moveToItself => MoveInv'
<1> SUFFICES ASSUME MoveInv, moveToItself PROVE MoveInv'
  OBVIOUS
<1> USE DEF MoveInv, MovesTypeOK, moveToItself, atMove
<1>1. /\ count \in Nat
      /\ \A k \in 1..count : dst(k) \in Places \ Scratch
      /\ \A j, k \in 1..count : j # k => dst(j) # dst(k)
  BY ListFacts
<1>2. i \in 1..count /\ moves' = moves /\ count' = count /\ \A k \in 1..count : dst(k)' = dst(k)
  BY <1>1 DEF count, dst
<1>3. done' \in [1..count -> BOOLEAN] /\ done'[i] /\ \A k \in 1..count : k # i => (done'[k] <=> done[k])
  BY <1>2 DEF isDone
<1>4. MovesTypeOK'
  BY <1>1, <1>2, <1>3 DEF isMoveList
<1>5. holds[dst(i)] = moves[i].src
  BY <1>1, <1>2, MachineAssumption DEF LeftIsReadable, value
<1>6. DoneIsRight' /\ LeftIsReadable' /\ OthersKept'
  BY <1>2, <1>3, <1>5 DEF DoneIsRight, LeftIsReadable, OthersKept, value
<1>7. \A k \in 1..count : k < i /\ ~done[k] /\ blocked(k) => blocked(k)'
  BY <1>1, <1>2, <1>3 DEF blocked
<1>8. MemoryFirst' /\ SourcesKnown'
  BY <1>1, <1>2, <1>3 DEF MemoryFirst, SourcesKnown
<1>9. \A k \in 1..count : k < i' /\ ~done'[k] => k < i /\ ~done[k]
  BY <1>1, <1>2, <1>3
<1>10. PassSoFar'
  BY <1>2, <1>3, <1>7, <1>9 DEF PassSoFar
<1> QED BY <1>4, <1>6, <1>8, <1>10

\* The scratch register takes over the value that the moves reading reg need;
\* no move that is left needs what it held
LEMMA BreakStep == MoveInv /\ breakCycle => MoveInv'
<1> SUFFICES ASSUME MoveInv, breakCycle PROVE MoveInv'
  OBVIOUS
<1> USE DEF MoveInv, MovesTypeOK, breakCycle, passDone
<1>1. /\ count \in Nat
      /\ \A k \in 1..count : dst(k) \in Places \ Scratch
  BY ListFacts
<1>2. moves' = moves /\ count' = count /\ \A k \in 1..count : dst(k)' = dst(k)
  BY DEF count, dst
<1>3. PICK k \in left : /\ holds' = [holds EXCEPT ![scratchFor(src[k])] = holds[src[k]]]
                        /\ src' = redirected(src[k], scratchFor(src[k]))
  OBVIOUS
<1> DEFINE scratch == scratchFor(src[k])
<1>4. \A j \in left : src[j] \in Registers \ Scratch
  BY OnlyCycles DEF OnlyCyclesRemain
<1>5. scratch \in Scratch /\ scratch \in Places /\ scratch \in Operands \ Immediates
  BY MachineAssumption DEF scratchFor, Scratch, Places, Registers, Operands
<1> HIDE DEF scratch
<1>6. /\ DOMAIN holds' = Places /\ holds'[scratch] = holds[src[k]]
      /\ \A p \in Places : p # scratch => holds'[p] = holds[p]
  BY <1>3, <1>5 DEF scratch
<1>7. \A j \in 1..count : src'[j] = IF j \in left /\ src[j] = src[k] THEN scratch ELSE src[j]
  BY <1>3 DEF redirected, scratch
<1>8. src' \in [1..count -> Operands]
  BY <1>3, <1>5 DEF redirected, scratch
<1>9. MovesTypeOK'
  <2>1. pending' \in BOOLEAN /\ progress' \in BOOLEAN /\ done' \in [1..count -> BOOLEAN]
    BY Zenon DEF newPass
  <2>2. i' \in 1..(count + 1)
    BY <1>1 DEF newPass
  <2> QED BY <1>2, <1>6, <1>8, <2>1, <2>2
<1>10. DoneIsRight' /\ OthersKept'
  BY <1>1, <1>2, <1>5, <1>6 DEF DoneIsRight, OthersKept
<1>11. LeftIsReadable'
  <2> SUFFICES ASSUME NEW j \in 1..count, ~done[j]
               PROVE  value(src[j])' = moves[j].src
    BY <1>2 DEF LeftIsReadable
  <2>1. j \in left /\ value(src[j]) = moves[j].src
    BY DEF left, LeftIsReadable
  <2>2. src[j] \in Places \ Immediates /\ src[j] # scratch
    BY <1>4, <1>5, <2>1, MachineAssumption DEF Places
  <2>3. CASE src[j] = src[k]
    <3>1. src'[j] = scratch /\ scratch \notin Immediates /\ holds'[scratch] = holds[src[j]]
      BY <1>5, <1>6, <1>7, <2>1, <2>3
    <3> QED BY <2>1, <2>2, <3>1 DEF value
  <2>4. CASE src[j] # src[k]
    <3>1. src'[j] = src[j] /\ holds'[src[j]] = holds[src[j]]
      BY <1>6, <1>7, <2>2, <2>4
    <3> QED BY <2>1, <2>2, <3>1 DEF value
  <2> QED BY <2>3, <2>4
<1>12. MemoryFirst' /\ SourcesKnown' /\ PassSoFar'
  BY <1>1, <1>2, <1>5, <1>7 DEF MemoryFirst, SourcesKnown, PassSoFar, newPass
<1> QED BY <1>9, <1>10, <1>11, <1>12

\* The steps that only go on to the next move, or to a new pass
LEMMA GoingOn ==
    ASSUME MoveInv, UNCHANGED <<moves, src, done, holds>>,
           phase' \in {"memory", "scan", "over"}, i' \in 1..(count + 1),
           pending' \in BOOLEAN, progress' \in BOOLEAN,
           SourcesKnown', MemoryFirst', PassSoFar'
    PROVE  MoveInv'
<1>1. MovesTypeOK'
  BY DEF MoveInv, MovesTypeOK, count
<1>2. DoneIsRight' /\ LeftIsReadable' /\ OthersKept'
  BY DEF MoveInv, DoneIsRight, LeftIsReadable, OthersKept, count, dst, value
<1> QED BY <1>1, <1>2 DEF MoveInv

LEMMA MoveStep == MoveInv /\ [Next]_vars => MoveInv'
<1> SUFFICES ASSUME MoveInv, [Next]_vars PROVE MoveInv'
  OBVIOUS
<1>1. /\ count \in Nat /\ i \in 1..(count + 1)
      /\ phase \in {"memory", "scan", "over"}
      /\ SourcesKnown /\ MemoryFirst /\ PassSoFar
      /\ done \in [1..count -> BOOLEAN]
  BY ListFacts DEF MoveInv, MovesTypeOK
<1>2. pending \in BOOLEAN /\ progress \in BOOLEAN
  BY DEF MoveInv, MovesTypeOK
<1> USE DEF SourcesKnown, MemoryFirst, PassSoFar, count, dst, blocked
<1>3. CASE toMemory
  BY <1>3, ToMemoryStep
<1>4. CASE notToMemory
  <2>1. SourcesKnown' /\ MemoryFirst' /\ PassSoFar' /\ i' \in 1..(count + 1)
    BY <1>1, <1>4 DEF notToMemory
  <2> QED BY <1>1, <1>2, <1>4, <2>1, GoingOn DEF notToMemory
<1>5. CASE memoryDone
  <2>1. SourcesKnown' /\ MemoryFirst' /\ PassSoFar' /\ i' \in 1..(count + 1)
    BY <1>1, <1>5 DEF memoryDone, newPass
  <2> QED BY <1>5, <2>1, GoingOn DEF memoryDone, newPass
<1>6. CASE skipDone
  <2>1. SourcesKnown' /\ MemoryFirst' /\ PassSoFar' /\ i' \in 1..(count + 1)
    BY <1>1, <1>6 DEF skipDone, atMove
  <2> QED BY <1>1, <1>2, <1>6, <2>1, GoingOn DEF skipDone
<1>7. CASE moveToItself
  BY <1>7, ItselfStep
<1>8. CASE leaveBlocked
  <2>1. SourcesKnown' /\ MemoryFirst' /\ PassSoFar' /\ i' \in 1..(count + 1)
    BY <1>1, <1>8 DEF leaveBlocked, atMove
  <2> QED BY <1>1, <1>2, <1>8, <2>1, GoingOn DEF leaveBlocked
<1>9. CASE moveReady
  BY <1>9, ReadyStep
<1>10. CASE allMoved
  <2>1. SourcesKnown' /\ MemoryFirst' /\ PassSoFar' /\ i' \in 1..(count + 1)
    BY <1>1, <1>10 DEF allMoved, passDone
  <2> QED BY <1>1, <1>2, <1>10, <2>1, GoingOn DEF allMoved
<1>11. CASE scanAgain
  <2>1. SourcesKnown' /\ MemoryFirst' /\ PassSoFar' /\ i' \in 1..(count + 1)
    BY <1>1, <1>11 DEF scanAgain, newPass, passDone
  <2> QED BY <1>1, <1>11, <2>1, GoingOn DEF scanAgain, newPass
<1>12. CASE breakCycle
  BY <1>12, BreakStep
<1>13. CASE UNCHANGED vars
  <2>1. SourcesKnown' /\ MemoryFirst' /\ PassSoFar' /\ i' \in 1..(count + 1)
    BY <1>1, <1>13 DEF vars
  <2> QED BY <1>1, <1>2, <1>13, <2>1, GoingOn DEF vars
<1> QED
  BY <1>3, <1>4, <1>5, <1>6, <1>7, <1>8, <1>9, <1>10, <1>11, <1>12, <1>13 DEF Next

\* "Performs all moves as if they happened at the same time": for every list of
\* moves with different destinations, whatever chains and cycles it has, and
\* however many of them share a scratch register.
THEOREM MovesAtTheSameTime == Spec => []AtTheSameTime
<1>1. MoveInv => AtTheSameTime
  BY DEF MoveInv, AtTheSameTime, DoneIsRight, OthersKept, PassSoFar
<1> QED BY MoveInit, MoveStep, <1>1, PTL DEF Spec

\* The code gets to the place where it breaks a cycle only when nothing but
\* cycles of registers is left, and the scratch register is free.
THEOREM OnlyCyclesRemainAlways == Spec => []OnlyCyclesRemain
  BY MoveInit, MoveStep, OnlyCycles, PTL DEF Spec
=============================================================================
