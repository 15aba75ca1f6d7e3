----------------------------- MODULE AllocState -----------------------------
(* What the parts of regalloc_function (src/regalloc.c) share. *)
EXTENDS Integers, Sequences

CONSTANTS Vregs,        \* func->vreg_types: the numbers of the vregs
          RegClasses    \* REG_CLASS_GPR, REG_CLASS_FPR

ASSUME VregsAssumption == Vregs \subseteq Int

VARIABLE phase          \* live, then rejected by ir_verify, or intervals, scan, done
=============================================================================
