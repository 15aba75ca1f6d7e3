------------------------------ MODULE RegAlloc ------------------------------
(***************************************************************************)
(* regalloc_function (src/regalloc.c): liveness, then one interval of      *)
(* positions per vreg, then the linear scan.                               *)
(***************************************************************************)
EXTENDS Liveness, LinearScan

vars == <<liveVars, phase, scanVars>>

\* ir_lower.c places blocks in the order in which it emits them, each after one that goes to it: only loops jump back
ASSUME LayoutAssumption ==
    \A f \in IrFunctions : \A k \in 2..Len(f.blocks) : \E j \in 1..(k-1) : k \in f.blocks[j].succ

INT32_MAX == 2147483647
unused(v) == [start |-> INT32_MAX, end |-> -1,
              reg_class |-> func.reg_class[v], crosses_call |-> FALSE]

Init == /\ LiveInit
        /\ intervals = [v \in Vregs |-> unused(v)]
        /\ todo = {}
        /\ nothingLocated
-----------------------------------------------------------------------------
(* Positions and intervals *)

\* Instructions are numbered in layout order, in steps of 2, from 2. 0 is the
\* function entry; the terminator of a block has a number too
block_start == LET at[k \in BlockIds] ==
                     IF k = 1 THEN 2 ELSE at[k-1] + 2 * (Len(block(k-1).insts) + 1)
               IN  at
inst_position(k, i) == block_start[k] + 2 * (i - 1)
block_end(k) == block_start[k] + 2 * Len(block(k).insts)

call_positions == UNION {{inst_position(k, i) : i \in {i \in InstIds(k) : inst(k, i).call}} : k \in BlockIds}

touchedAtUses(v) ==
    (UNION {{inst_position(k, i) : i \in {i \in InstIds(k) : v \in inst(k, i).use \/ v = inst(k, i).dst}}
              : k \in BlockIds})
      \cup {block_end(k) : k \in {k \in BlockIds : v \in block(k).use}}
      \cup {0 : p \in func.params \cap {v}}

\* Every position interval_extend is called with for v
touched(v) == (UNION {{inst_position(k, i) : i \in {i \in InstIds(k) : v \in inst(k, i).use \/ v = inst(k, i).dst}}
                        : k \in BlockIds})
                \cup {block_start[k] : k \in {k \in BlockIds : v \in live_in[k]}}
                \cup {block_end(k) : k \in {k \in BlockIds : v \in live_out[k] \/ v \in block(k).use}}
                \cup {0 : p \in func.params \cap {v}}

least(S) == CHOOSE p \in S : \A q \in S : p <= q
greatest(S) == CHOOSE p \in S : \A q \in S : q <= p

\* Live both before and after a call
spansCall(from, to) == \E p \in call_positions : from < p /\ p < to

intervalOf(v) == LET T == touched(v) IN
                 IF T = {} THEN unused(v)
                 ELSE [start |-> least(T), end |-> greatest(T), reg_class |-> func.reg_class[v],
                       crosses_call |-> spansCall(least(T), greatest(T))]

buildIntervals == /\ phase = "intervals"
                  /\ intervals' = [v \in Vregs |-> intervalOf(v)]
                  /\ todo' = toAllocate(intervals')
                  /\ phase' = "scan"
                  /\ UNCHANGED <<liveVars, locations, spill_slot_count, used_callee_saved,
                                 active, reg_free>>
-----------------------------------------------------------------------------
Next == \/ LiveStep /\ UNCHANGED scanVars
        \/ buildIntervals
        \/ ScanStep /\ UNCHANGED liveVars

Spec == Init /\ [][Next]_vars
FairSpec == Spec /\ WF_vars(Next)
-----------------------------------------------------------------------------
(* Properties *)

\* v is read after instruction i of block k, before it is written
liveAfter(k, i, v) ==
    \/ \E j \in (i+1)..Len(block(k).insts) :
          v \in inst(k, j).use /\ \A h \in (i+1)..(j-1) : inst(k, h).dst # v
    \/ /\ \A h \in (i+1)..Len(block(k).insts) : inst(k, h).dst # v
       /\ v \in block(k).use \/ \E s \in block(k).succ : livePath(s, v)

\* What the backends rely on, said of the program and not of the intervals: an
\* instruction that writes a register overwrites no value that is read later
\* and none of its own operands ("the destination of an instruction never
\* shares a register with any of that instruction's operands"), a call changes
\* no value that is read after it, and the parameters arrive apart.
ValuesSurvive ==
    phase = "done" =>
        /\ \A k \in BlockIds : \A i \in InstIds(k) : \A v \in inRegs :
             LET d == inst(k, i).dst
                 r == locations[v].reg
             IN  /\ d \in inRegs \ {v} /\ (liveAfter(k, i, v) \/ v \in inst(k, i).use)
                       => locations[d].reg # r
                 /\ inst(k, i).call /\ v # d /\ liveAfter(k, i, v)
                       => r \in CalleeSaved /\ r \in used_callee_saved
        /\ \A v, w \in inRegs \cap func.params : v # w => locations[v].reg # locations[w].reg

\* The sweeps of the liveness end and the scan ends, with a location for every
\* vreg that is read or written.
Allocates ==
    <>(\/ phase = "rejected"
       \/ phase = "done" /\ \A v \in Vregs : touched(v) # {} => v \in inRegs \cup inSlots)
=============================================================================
