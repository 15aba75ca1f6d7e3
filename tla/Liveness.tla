------------------------------ MODULE Liveness ------------------------------
(***************************************************************************)
(* ir_compute_liveness (src/ir.c): which vregs are live at the start and   *)
(* at the end of every block of a function, by sweeps over the blocks from *)
(* the last to the first until a sweep changes nothing. A bitset of vregs  *)
(* is a set, a block is its place in the layout, and an instruction is     *)
(* what it reads, what it writes and if it calls.                          *)
(***************************************************************************)
EXTENDS AllocState

CONSTANTS NoVreg,       \* IR_NO_VREG
          IrFunctions   \* the functions to look at

Insts  == [use : SUBSET Vregs, dst : Vregs \cup {NoVreg}, call : BOOLEAN]
Blocks == [insts : Seq(Insts), use : SUBSET Vregs, succ : SUBSET Nat]

\* What ir_verify_function looks at before liveness: jumps to blocks of the
\* function, and vregs that are "defined exactly once"
isFunction(f) == /\ f.blocks \in Seq(Blocks) /\ Len(f.blocks) > 0
                 /\ \A k \in 1..Len(f.blocks) : f.blocks[k].succ \subseteq 1..Len(f.blocks)
                 /\ f.params \subseteq Vregs
                 /\ \A k, l \in 1..Len(f.blocks) : \A i \in 1..Len(f.blocks[k].insts) :
                    \A j \in 1..Len(f.blocks[l].insts) :
                       LET v == f.blocks[k].insts[i].dst IN
                       /\ v \notin f.params
                       /\ v = f.blocks[l].insts[j].dst /\ v # NoVreg => k = l /\ i = j
                 /\ f.reg_class \in [Vregs -> RegClasses]

ASSUME LivenessAssumption == /\ NoVreg \notin Vregs
                             /\ \A f \in IrFunctions : isFunction(f)

VARIABLES func, live_in, live_out,
          changed,      \* something changed in this sweep
          b             \* the next block of the sweep; 0 at its end

liveVars == <<func, live_in, live_out, changed, b>>

block_count == Len(func.blocks)
BlockIds == 1..block_count
block(k) == func.blocks[k]
inst(k, i) == block(k).insts[i]
InstIds(k) == 1..Len(block(k).insts)

\* What the block reads before it writes it, and what it writes
defs(k) == {inst(k, i).dst : i \in InstIds(k)} \ {NoVreg}
uses(k) == {v \in Vregs : \/ \E i \in InstIds(k) : /\ v \in inst(k, i).use
                                                   /\ \A j \in 1..(i-1) : inst(k, j).dst # v
                          \/ v \in block(k).use \ defs(k)}

fromSuccessors(k) == UNION {live_in[s] : s \in block(k).succ}

LiveInit == /\ func \in IrFunctions
            /\ live_in = [k \in BlockIds |-> {}]
            /\ live_out = [k \in BlockIds |-> {}]
            /\ changed = FALSE
            /\ b = block_count
            /\ phase = "live"

sweepSubtractsInPlace == /\ phase = "live" /\ b > 0
                         /\ live_out' = [live_out EXCEPT ![b] = @ \cup (fromSuccessors(b) \ defs(b))]
                         /\ live_in' = [live_in EXCEPT ![b] = @ \cup uses(b) \cup live_out'[b]]
                         /\ changed' = (changed \/ live_out' # live_out \/ live_in' # live_in)
                         /\ b' = b - 1
                         /\ UNCHANGED <<func, phase>>

sweepKeepsDefs == /\ phase = "live" /\ b > 0
                  /\ live_out' = [live_out EXCEPT ![b] = @ \cup fromSuccessors(b)]
                  /\ live_in' = [live_in EXCEPT ![b] = @ \cup uses(b) \cup live_out'[b]]
                  /\ changed' = (changed \/ live_out' # live_out \/ live_in' # live_in)
                  /\ b' = b - 1
                  /\ UNCHANGED <<func, phase>>

\* One block: the union of what its successors need, then what it needs itself
sweep == /\ phase = "live" /\ b > 0
         /\ live_out' = [live_out EXCEPT ![b] = @ \cup fromSuccessors(b)]
         /\ live_in' = [live_in EXCEPT ![b] = @ \cup uses(b) \cup (live_out'[b] \ defs(b))]
         /\ changed' = (changed \/ live_out' # live_out \/ live_in' # live_in)
         /\ b' = b - 1
         /\ UNCHANGED <<func, phase>>

sweepAgainStillChanged == /\ phase = "live" /\ b = 0 /\ changed
                          /\ b' = block_count
                          /\ UNCHANGED <<func, live_in, live_out, changed, phase>>

sweepAgain == /\ phase = "live" /\ b = 0 /\ changed
              /\ changed' = FALSE
              /\ b' = block_count
              /\ UNCHANGED <<func, live_in, live_out, phase>>

\* ir_verify_function: "A vreg that is live into the entry block is used on some
\* path before being defined". Only functions that pass get to a backend
sweepDone == /\ phase = "live" /\ b = 0 /\ ~changed
             /\ phase' = IF live_in[1] \subseteq func.params THEN "intervals" ELSE "rejected"
             /\ UNCHANGED liveVars
LiveStep == sweep \/ sweepAgain \/ sweepDone
-----------------------------------------------------------------------------
(* Properties *)

\* The dataflow equations in the comment of ir_compute_liveness, "live_out[B] =
\* union of live_in[S] for every successor S of B, live_in[B] = use[B] |
\* (live_out[B] - def[B])", hold for all blocks at once when the sweeps end.
EquationsHold ==
    phase # "live" =>
        \A k \in BlockIds : /\ live_out[k] = fromSuccessors(k)
                            /\ live_in[k] = uses(k) \cup (live_out[k] \ defs(k))

\* What liveness means: a path through the blocks leads from the start of k to
\* one that reads v, and none before it on the path writes v.
livePath(k, v) ==
    \E n \in BlockIds : \E path \in [1..n -> BlockIds] :
        /\ path[1] = k
        /\ \A i \in 1..(n-1) : path[i+1] \in block(path[i]).succ /\ v \notin defs(path[i])
        /\ v \in uses(path[n])

\* The sweeps find what is live and no more, also around loops: a vreg that is
\* missed is overwritten while it is needed, one too many costs a register.
LivenessExact ==
    phase # "live" => \A k \in BlockIds : live_in[k] = {v \in Vregs : livePath(k, v)}
=============================================================================
