---------------------------- MODULE ParallelMove ----------------------------
(***************************************************************************)
(* x64_parallel_move (src/x64_emit.c): performs the moves into argument    *)
(* registers, or of parameters to where they were allocated, one after the *)
(* other as if all happened at the same time. What the emitted             *)
(* instructions do to the machine is part of the step that emits them: a   *)
(* place holds, at first, a value of its own, named like the place.        *)
(***************************************************************************)
EXTENDS Integers, Sequences

CONSTANTS Gprs, Xmms,     \* general and float registers
          R11, XMM15,     \* the scratch registers
          Memory,         \* [base+offset]: arguments and spill slots on the stack
          Immediates,
          MoveLists       \* what x64_parallel_move is called with

Registers == Gprs \cup Xmms
Scratch   == {R11, XMM15}
Places    == Registers \cup Memory
Operands  == Places \cup Immediates

\* A destination is written once, the scratch registers are reserved, and no
\* move reads memory that another writes: arguments go to the outgoing area at
\* rsp, parameters come from the frame of the caller
isMoveList(ms) ==
    /\ ms \in Seq([dst : Places \ Scratch, src : Operands \ Scratch])
    /\ \A j, k \in 1..Len(ms) : /\ j # k => ms[j].dst # ms[k].dst
                                /\ ms[j].dst \in Memory => ms[k].src # ms[j].dst

ASSUME MachineAssumption == /\ R11 \in Gprs /\ XMM15 \in Xmms
                            /\ Gprs \cap Xmms = {}
                            /\ Memory \cap Registers = {}
                            /\ Immediates \cap Places = {}

ASSUME MovesAssumption == \A ms \in MoveLists : isMoveList(ms)

VARIABLES moves,      \* the list as it was given
          src, done,  \* Move.src and Move.done of each, which change
          holds,      \* what is in each place of the machine
          phase,      \* memory, scan, over
          i,          \* the move the loop is at
          pending, progress

vars == <<moves, src, done, holds, phase, i, pending, progress>>

count == Len(moves)
dst(k) == moves[k].dst

Init == /\ moves \in MoveLists
        /\ src = [k \in 1..count |-> moves[k].src]
        /\ done = [k \in 1..count |-> FALSE]
        /\ holds = [p \in Places |-> p]
        /\ phase = "memory" /\ i = 1
        /\ pending = FALSE /\ progress = FALSE
-----------------------------------------------------------------------------
value(o) == IF o \in Immediates THEN o ELSE holds[o]

\* memory/immediate -> memory goes through r11
x64_emit_move(to, from) ==
    holds' = IF to \in Memory /\ from \notin Registers
             THEN [holds EXCEPT ![R11] = value(from), ![to] = value(from)]
             ELSE [holds EXCEPT ![to] = value(from)]

isDone(k) == done' = [done EXCEPT ![k] = TRUE]

\* 1. Moves into memory first
toMemory == /\ phase = "memory" /\ i <= count /\ dst(i) \in Memory
            /\ x64_emit_move(dst(i), src[i])
            /\ isDone(i)
            /\ i' = i + 1
            /\ UNCHANGED <<moves, src, phase, pending, progress>>

notToMemory == /\ phase = "memory" /\ i <= count /\ dst(i) \notin Memory
               /\ i' = i + 1
               /\ UNCHANGED <<moves, src, done, holds, phase, pending, progress>>

\* A new pass over the moves that are left
newPass == i' = 1 /\ pending' = FALSE /\ progress' = FALSE

memoryDone == /\ phase = "memory" /\ i > count
              /\ phase' = "scan"
              /\ newPass
              /\ UNCHANGED <<moves, src, done, holds>>

\* 2. Register destinations
atMove == phase = "scan" /\ i <= count

skipDone == /\ atMove /\ done[i]
            /\ i' = i + 1
            /\ UNCHANGED <<moves, src, done, holds, phase, pending, progress>>

moveToItself == /\ atMove /\ ~done[i] /\ src[i] = dst(i)
                /\ isDone(i)
                /\ i' = i + 1
                /\ UNCHANGED <<moves, src, holds, phase, pending, progress>>

blockedByLater(k) == \E j \in (k+1)..count : ~done[j] /\ src[j] = dst(k)

\* Another pending move reads the destination
blocked(k) == \E j \in 1..count : j # k /\ ~done[j] /\ src[j] = dst(k)

leaveBlocked == /\ atMove /\ ~done[i] /\ src[i] # dst(i) /\ blocked(i)
                /\ pending' = TRUE
                /\ i' = i + 1
                /\ UNCHANGED <<moves, src, done, holds, phase, progress>>

moveReadyUnseen == /\ atMove /\ ~done[i] /\ src[i] # dst(i) /\ ~blocked(i)
                   /\ x64_emit_move(dst(i), src[i])
                   /\ isDone(i)
                   /\ pending' = TRUE
                   /\ i' = i + 1
                   /\ UNCHANGED <<moves, src, phase, progress>>

moveReady == /\ atMove /\ ~done[i] /\ src[i] # dst(i) /\ ~blocked(i)
             /\ x64_emit_move(dst(i), src[i])
             /\ isDone(i)
             /\ pending' = TRUE /\ progress' = TRUE
             /\ i' = i + 1
             /\ UNCHANGED <<moves, src, phase>>

passDone == phase = "scan" /\ i > count

allMoved == /\ passDone /\ ~pending
            /\ phase' = "over"
            /\ UNCHANGED <<moves, src, done, holds, i, pending, progress>>

scanAgain == /\ passDone /\ pending /\ progress
             /\ newPass
             /\ UNCHANGED <<moves, src, done, holds, phase>>

left == {k \in 1..count : ~done[k]}
isFirst(k) == k \in left /\ \A j \in left : k <= j

scratchFor(reg) == IF reg \in Xmms THEN XMM15 ELSE R11

redirectedNone(reg, scratch) == src

\* Every pending move that reads reg reads the scratch register instead
redirected(reg, scratch) == [j \in 1..count |-> IF j \in left /\ src[j] = reg THEN scratch ELSE src[j]]

\* "Only cycles of register to register moves remain. Break one by saving a
\* source in a scratch register"
breakCycle == /\ passDone /\ pending /\ ~progress
              /\ \E k \in left :
                    /\ isFirst(k)
                    /\ holds' = [holds EXCEPT ![scratchFor(src[k])] = holds[src[k]]]
                    /\ src' = redirected(src[k], scratchFor(src[k]))
              /\ newPass
              /\ UNCHANGED <<moves, done, phase>>

Next == \/ toMemory \/ notToMemory \/ memoryDone
        \/ skipDone \/ moveToItself \/ leaveBlocked \/ moveReady
        \/ allMoved \/ scanAgain \/ breakCycle

Spec == Init /\ [][Next]_vars
FairSpec == Spec /\ WF_vars(Next)
-----------------------------------------------------------------------------
(* Properties *)

MovesTypeOK == /\ isMoveList(moves)
               /\ src \in [1..count -> Operands]
               /\ done \in [1..count -> BOOLEAN]
               /\ DOMAIN holds = Places
               /\ phase \in {"memory", "scan", "over"}
               /\ i \in 1..(count + 1)
               /\ pending \in BOOLEAN /\ progress \in BOOLEAN

\* "Performs all moves as if they happened at the same time": in the end every
\* destination holds what its source held before the first move, and a place
\* that is no destination and not reserved holds what it held.
AtTheSameTime ==
    phase = "over" =>
        /\ \A k \in 1..count : holds[dst(k)] = moves[k].src
        /\ \A p \in Places \ Scratch : (\A k \in 1..count : dst(k) # p) => holds[p] = p

\* "Only cycles of register to register moves remain" when a pass made no
\* progress: what every move that is left reads is the destination of another,
\* so it is a register, and the scratch register is free to be used again.
OnlyCyclesRemain ==
    passDone /\ pending /\ ~progress =>
        \A j \in left : /\ \E k \in left : k # j /\ src[j] = dst(k)
                        /\ src[j] \in Registers \ Scratch

\* The passes end, also when there are several cycles to break.
Ends == <>(phase = "over")
=============================================================================
