-------------------------- MODULE AssemblerProofs --------------------------
(***************************************************************************)
(* Proofs about the layout of the jumps (asm_layout of x64_asm.c), for     *)
(* every text and every table of instructions: the jumps are as short as   *)
(* they can be, and the ones that are short reach.                         *)
(*                                                                         *)
(* Where an item is is defined by recursion over the items. What holds of  *)
(* it for every number of items is proved by the least number for which it *)
(* doesn't hold (LeastNat).                                                *)
(***************************************************************************)
EXTENDS Assembling, Extremes, SequenceTheorems, TLAPS

-----------------------------------------------------------------------------
(* Where the items are                                                     *)

IsOffsets(f, m, list) == f = [i \in 1..m |-> IF i = 1 THEN 0 ELSE f[i - 1] + list[i - 1].size]

\* There is a function like the one that itemOffsets chooses.
LEMMA OffsetsExist ==
  ASSUME NEW list, NEW n \in Nat
  PROVE  \E f : IsOffsets(f, n, list)
<1> DEFINE T == {m \in Nat : ~\E f : IsOffsets(f, m, list)}
<1> SUFFICES ASSUME T # {} PROVE FALSE
  OBVIOUS
<1>1. PICK m \in T : \A k \in T : m <= k
  BY LeastNat
<1>2. m # 0
  <2> DEFINE f == [i \in 1..0 |-> 0]
  <2>1. IsOffsets(f, 0, list)
    BY DEF IsOffsets
  <2> QED BY <2>1
<1>3. m - 1 \in Nat /\ m - 1 \notin T
  BY <1>1, <1>2
<1>4. PICK g : IsOffsets(g, m - 1, list)
  BY <1>3
<1> DEFINE f == [i \in 1..m |-> IF i = 1 THEN 0 ELSE g[i - 1] + list[i - 1].size]
<1>5. \A i \in 1..(m - 1) : f[i] = g[i]
  BY <1>4 DEF IsOffsets
<1>6. f = [i \in 1..m |-> IF i = 1 THEN 0 ELSE f[i - 1] + list[i - 1].size]
  <2>1. \A i \in 1..m : i # 1 => i - 1 \in 1..(m - 1)
    BY <1>3
  <2>2. \A i \in 1..(m - 1) : i \in 1..m
    BY <1>3
  <2>3. \A i \in 1..m : i # 1 => f[i - 1] = g[i - 1]
    BY <2>1, <1>5
  <2> QED BY <2>3
<1> QED BY <1>1, <1>6 DEF IsOffsets

LEMMA Offsets ==
  ASSUME NEW list, Len(list) \in Nat
  PROVE  IsOffsets(itemOffsets(list), Len(list) + 1, list)
<1> DEFINE n == Len(list) + 1
<1>1. itemOffsets(list) = CHOOSE f : IsOffsets(f, n, list)
  BY DEF itemOffsets, IsOffsets
<1>2. \E f : IsOffsets(f, n, list)
  <2>1. n \in Nat
    OBVIOUS
  <2> HIDE DEF n
  <2> QED BY <2>1, OffsetsExist
<1> QED BY <1>1, <1>2, Zenon


\* Each item is after the one before it, and the label of the end is after the last one.
LEMMA OffsetSteps ==
  ASSUME NEW list, Len(list) \in Nat
  PROVE  /\ itemOffsets(list)[1] = 0
         /\ \A i \in 1..Len(list) : itemOffsets(list)[i + 1] = itemOffsets(list)[i] + list[i].size
<1> DEFINE at == itemOffsets(list)
<1>1. at = [i \in 1..(Len(list) + 1) |-> IF i = 1 THEN 0 ELSE at[i - 1] + list[i - 1].size]
  BY Offsets DEF IsOffsets
<1> HIDE DEF at
<1>2. at[1] = 0
  BY <1>1
<1>3. ASSUME NEW i \in 1..Len(list) PROVE at[i + 1] = at[i] + list[i].size
  <2>1. i + 1 \in 1..(Len(list) + 1) /\ i + 1 # 1 /\ (i + 1) - 1 = i
    OBVIOUS
  <2> QED BY <2>1, <1>1
<1> QED BY <1>2, <1>3 DEF at

LEMMA OffsetsNat ==
  ASSUME NEW list, Len(list) \in Nat, \A i \in 1..Len(list) : list[i].size \in Nat
  PROVE  \A i \in 1..(Len(list) + 1) : itemOffsets(list)[i] \in Nat
<1> DEFINE at == itemOffsets(list)
           T == {i \in 1..(Len(list) + 1) : at[i] \notin Nat}
<1>0. at[1] = 0 /\ \A i \in 1..Len(list) : at[i + 1] = at[i] + list[i].size
  BY OffsetSteps
<1> HIDE DEF at
<1> SUFFICES ASSUME T # {} PROVE FALSE
  BY DEF at
<1>1. PICK m \in T : \A k \in T : m <= k
  <2>1. T \in SUBSET Nat
    OBVIOUS
  <2> HIDE DEF T
  <2> QED BY <2>1, LeastNat
<1>2. m # 1
  BY <1>0
<1>3. m - 1 \in 1..Len(list) /\ m - 1 \notin T
  BY <1>1, <1>2
<1>4. at[m - 1] \in Nat /\ at[(m - 1) + 1] = at[m - 1] + list[m - 1].size
  BY <1>0, <1>3
<1>5. at[m] \in Nat
  BY <1>3, <1>4
<1> QED BY <1>5

\* Two items are no farther from each other when no item is larger.
LEMMA Distances ==
  ASSUME NEW a, NEW b, NEW n \in Nat, Len(a) = n, Len(b) = n,
         \A i \in 1..n : a[i].size \in Nat /\ b[i].size \in Nat /\ a[i].size <= b[i].size,
         NEW i \in 1..(n + 1), NEW j \in 1..(n + 1), i <= j
  PROVE  LET at == itemOffsets(a)
             bt == itemOffsets(b)
         IN  /\ at[i] \in Nat /\ at[j] \in Nat /\ bt[i] \in Nat /\ bt[j] \in Nat
             /\ 0 <= at[j] - at[i] /\ at[j] - at[i] <= bt[j] - bt[i]
<1> DEFINE at == itemOffsets(a)
           bt == itemOffsets(b)
           T == {k \in i..(n + 1) : ~(0 <= at[k] - at[i] /\ at[k] - at[i] <= bt[k] - bt[i])}
<1>1. \A k \in 1..(n + 1) : at[k] \in Nat /\ bt[k] \in Nat
  BY OffsetsNat
<1>2. \A k \in 1..n : at[k + 1] = at[k] + a[k].size /\ bt[k + 1] = bt[k] + b[k].size
  BY OffsetSteps
<1> HIDE DEF at, bt
<1>3. T = {}
  <2> SUFFICES ASSUME T # {} PROVE FALSE
    OBVIOUS
  <2>1. PICK m \in T : \A k \in T : m <= k
    <3>1. T \in SUBSET Nat
      OBVIOUS
    <3> HIDE DEF T
    <3> QED BY <3>1, LeastNat
  <2>2. m # i
    BY <1>1
  <2>3. PICK k \in 1..n : k = m - 1
    BY <2>2
  <2>4. k + 1 = m /\ k \notin T /\ k \in i..(n + 1) /\ m \in 1..(n + 1)
    BY <2>1, <2>2, <2>3
  <2>5. at[m] = at[k] + a[k].size /\ bt[m] = bt[k] + b[k].size
    BY <1>2, <2>4
  <2>6. a[k].size \in Nat /\ b[k].size \in Nat /\ a[k].size <= b[k].size
    OBVIOUS
  <2>7. at[k] \in Nat /\ bt[k] \in Nat /\ at[i] \in Nat /\ bt[i] \in Nat /\ at[m] \in Nat /\ bt[m] \in Nat
    BY <1>1, <2>4
  <2>8. 0 <= at[k] - at[i] /\ at[k] - at[i] <= bt[k] - bt[i]
    BY <2>4
  <2> HIDE DEF T
  <2>9. 0 <= at[m] - at[i] /\ at[m] - at[i] <= bt[m] - bt[i]
    <3>1. PICK p \in Nat, q \in Nat, u \in Nat, v \in Nat, s \in Nat, t \in Nat :
             p = at[k] /\ q = bt[k] /\ u = at[i] /\ v = bt[i] /\ s = a[k].size /\ t = b[k].size
      BY <2>6, <2>7
    <3>2. s <= t /\ 0 <= p - u /\ p - u <= q - v
      BY <2>6, <2>8, <3>1
    <3>3. 0 <= (p + s) - u /\ (p + s) - u <= (q + t) - v
      BY <3>2
    <3>4. at[m] = p + s /\ bt[m] = q + t
      BY <2>5, <3>1
    <3> QED BY <3>1, <3>3, <3>4
  <2>10. m \notin T
    BY <2>9 DEF T
  <2> QED BY <2>10
<1>4. j \in i..(n + 1) /\ j \notin T
  BY <1>3
<1>5. 0 <= at[j] - at[i] /\ at[j] - at[i] <= bt[j] - bt[i]
  BY <1>4
<1> QED BY <1>1, <1>5 DEF at, bt


-----------------------------------------------------------------------------
(* The layout                                                              *)

ItemOK(item) ==
    /\ item = [is_jump |-> item.is_jump, condition |-> item.condition, target |-> item.target, is_short |-> item.is_short,
               size |-> item.size, bytes |-> item.bytes, relocs |-> item.relocs]
    /\ item.is_jump \in BOOLEAN /\ item.is_short \in BOOLEAN /\ item.size \in Nat

ItemsOK == items \in Seq(Range(items)) /\ \A i \in 1..Len(items) : ItemOK(items[i])
LabelsInText == \A name \in DOMAIN label_item : label_item[name] \in 1..(Len(items) + 1)

\* What is long has to be: whichever jumps are short together and reach, they are short here
NoneTooLong == \A short \in SUBSET JumpItems : CanBeShort(short) => short \subseteq ShortJumps
Shapes == ItemsOK /\ LabelsInText
LayoutInv == Shapes /\ (pc = "lines" => ShortJumps = JumpItems) /\ NoneTooLong /\ ShortJumpsReach

\* A function of the numbers up to n is a sequence of n elements.
LEMMA Sequence ==
  ASSUME NEW n \in Nat, NEW f, f = [i \in 1..n |-> f[i]]
  PROVE  f \in Seq(Range(f)) /\ Len(f) = n
<1>1. DOMAIN f = 1..n
  OBVIOUS
<1>2. f \in [1..n -> Range(f)]
  BY <1>1 DEF Range
<1>3. f \in Seq(Range(f))
  BY <1>2, SeqDef
<1>4. Len(f) = n
  BY <1>1, <1>3
<1> QED BY <1>3, <1>4

\* The round starts with the sizes of the jumps that are short.
LEMMA Sized ==
  ASSUME ItemsOK
  PROVE  /\ Len(items) \in Nat /\ DOMAIN items = 1..Len(items)
         /\ Len(sizedItems) = Len(items) /\ DOMAIN sizedItems = 1..Len(items) /\ sizedItems \in Seq(Range(sizedItems))
         /\ sizedItems = [i \in 1..Len(items) |-> sizedItems[i]]
         /\ \A i \in 1..Len(items) : /\ ItemOK(sizedItems[i])
                                     /\ sizedItems[i].is_jump = items[i].is_jump /\ sizedItems[i].is_short = items[i].is_short
                                     /\ sizedItems[i].target = items[i].target /\ sizedItems[i].condition = items[i].condition
                                     /\ sizedItems[i].size = sizeWhen(ShortJumps, i)
                                     /\ ~items[i].is_jump => sizedItems[i].size = items[i].size
<1>1. Len(items) \in Nat /\ DOMAIN items = 1..Len(items)
  BY DEF ItemsOK
<1>2. sizedItems = [i \in 1..Len(items) |-> IF items[i].is_jump THEN [items[i] EXCEPT !.size = jumpSize(items[i])] ELSE items[i]]
  BY <1>1 DEF sizedItems
<1>3. sizedItems \in Seq(Range(sizedItems)) /\ Len(sizedItems) = Len(items)
  <2>1. sizedItems = [i \in 1..Len(items) |-> sizedItems[i]]
    BY <1>2
  <2> HIDE DEF sizedItems
  <2> QED BY <1>1, <2>1, Sequence
<1>4. ASSUME NEW i \in 1..Len(items)
      PROVE  /\ ItemOK(sizedItems[i])
             /\ sizedItems[i].is_jump = items[i].is_jump /\ sizedItems[i].is_short = items[i].is_short
             /\ sizedItems[i].target = items[i].target /\ sizedItems[i].condition = items[i].condition
             /\ sizedItems[i].size = sizeWhen(ShortJumps, i)
             /\ ~items[i].is_jump => sizedItems[i].size = items[i].size
  <2>1. ItemOK(items[i])
    BY DEF ItemsOK
  <2>2. CASE items[i].is_jump
    <3>1. sizedItems[i] = [items[i] EXCEPT !.size = jumpSize(items[i])]
      BY <1>2, <2>2
    <3>2. jumpSize(items[i]) \in Nat
      BY DEF jumpSize
    <3>3. sizedItems[i] = [is_jump |-> items[i].is_jump, condition |-> items[i].condition, target |-> items[i].target,
                           is_short |-> items[i].is_short, size |-> jumpSize(items[i]), bytes |-> items[i].bytes, relocs |-> items[i].relocs]
      BY <2>1, <3>1 DEF ItemOK
    <3>4. i \in JumpItems /\ (i \in ShortJumps <=> items[i].is_short)
      BY <1>1, <2>2 DEF JumpItems, ShortJumps
    <3>5. sizeWhen(ShortJumps, i) = jumpSize(items[i])
      BY <2>1, <3>4 DEF sizeWhen, jumpSize, ItemOK
    <3> QED BY <2>1, <2>2, <3>2, <3>3, <3>5 DEF ItemOK
  <2>3. CASE ~items[i].is_jump
    BY <1>1, <1>2, <2>1, <2>3 DEF sizeWhen, JumpItems
  <2> QED BY <2>2, <2>3
<1> QED BY <1>1, <1>2, <1>3, <1>4


\* After it the items are those of before, with the jumps long that didn't reach.
LEMMA Grown ==
  ASSUME ItemsOK, asm_layout
  PROVE  /\ items' \in Seq(Range(items')) /\ Len(items') = Len(items)
         /\ items' = [i \in 1..Len(items) |-> items'[i]]
         /\ \A i \in 1..Len(items) : /\ ItemOK(items'[i])
                                     /\ items'[i].is_jump = items[i].is_jump /\ items'[i].size = sizedItems[i].size
                                     /\ items'[i].target = items[i].target /\ items'[i].condition = items[i].condition
                                     /\ items'[i] # sizedItems[i] => items[i].is_jump /\ items[i].is_short /\ ~items'[i].is_short
                                     /\ items'[i].is_short => items[i].is_short
                                     /\ items[i].is_jump /\ items[i].is_short =>
                                           (items'[i].is_short <=> reachesShort(items[i], i, offsets'))
<1>1. Len(items) \in Nat
  BY DEF ItemsOK
<1>2. items' = [i \in 1..Len(items) |-> IF /\ sizedItems[i].is_jump /\ sizedItems[i].is_short
                                           /\ ~reachesShort(sizedItems[i], i, offsets')
                                        THEN [sizedItems[i] EXCEPT !.is_short = FALSE] ELSE sizedItems[i]]
  BY Sized DEF asm_layout, grown
<1>3. items' \in Seq(Range(items')) /\ Len(items') = Len(items)
  <2>1. items' = [i \in 1..Len(items) |-> items'[i]]
    BY <1>2
  <2> QED BY <1>1, <2>1, Sequence
<1>4. ASSUME NEW i \in 1..Len(items)
      PROVE  /\ ItemOK(items'[i])
             /\ items'[i].is_jump = items[i].is_jump /\ items'[i].size = sizedItems[i].size
             /\ items'[i].target = items[i].target /\ items'[i].condition = items[i].condition
             /\ items'[i] # sizedItems[i] => items[i].is_jump /\ items[i].is_short /\ ~items'[i].is_short
             /\ items'[i].is_short => items[i].is_short
             /\ items[i].is_jump /\ items[i].is_short => (items'[i].is_short <=> reachesShort(items[i], i, offsets'))
  <2> DEFINE sized == sizedItems[i]
  <2>1. /\ ItemOK(sized) /\ sized.is_jump = items[i].is_jump /\ sized.is_short = items[i].is_short
        /\ sized.target = items[i].target /\ sized.condition = items[i].condition
    BY Sized
  <2>2. items'[i] = IF sized.is_jump /\ sized.is_short /\ ~reachesShort(sized, i, offsets')
                    THEN [sized EXCEPT !.is_short = FALSE] ELSE sized
    BY <1>2
  <2>3. reachesShort(sized, i, offsets') <=> reachesShort(items[i], i, offsets')
    BY <2>1 DEF reachesShort
  <2> HIDE DEF sized
  <2>4. CASE sized.is_jump /\ sized.is_short /\ ~reachesShort(sized, i, offsets')
    <3>1. items'[i] = [sized EXCEPT !.is_short = FALSE]
      BY <2>2, <2>4
    <3>2. items'[i] = [is_jump |-> sized.is_jump, condition |-> sized.condition, target |-> sized.target,
                       is_short |-> FALSE, size |-> sized.size, bytes |-> sized.bytes, relocs |-> sized.relocs]
      BY <2>1, <3>1 DEF ItemOK
    <3> QED BY <2>1, <2>3, <2>4, <3>2 DEF ItemOK, sized
  <2>5. CASE ~(sized.is_jump /\ sized.is_short /\ ~reachesShort(sized, i, offsets'))
    <3>1. items'[i] = sized
      BY <2>2, <2>5
    <3> QED BY <2>1, <2>3, <2>5, <3>1 DEF sized
  <2> QED BY <2>4, <2>5
<1> QED BY <1>2, <1>3, <1>4

\* No round changes which jumps can be short together.
LEMMA SameChoices ==
  ASSUME ItemsOK, asm_layout
  PROVE  /\ JumpItems' = JumpItems /\ ShortJumps' \subseteq ShortJumps
         /\ \A short \in SUBSET JumpItems : CanBeShort(short)' <=> CanBeShort(short)
<1>1. Len(items) \in Nat /\ DOMAIN items = 1..Len(items) /\ DOMAIN items' = 1..Len(items)
  BY Grown, Sized
<1>2. JumpItems' = JumpItems
  BY <1>1, Grown DEF JumpItems
<1>3. ShortJumps' \subseteq ShortJumps
  BY <1>1, <1>2, Grown DEF ShortJumps, JumpItems
<1>4. ASSUME NEW short \in SUBSET JumpItems
      PROVE  CanBeShort(short)' <=> CanBeShort(short)
  <2>1. \A i \in 1..Len(items) : sizeWhen(short, i)' = sizeWhen(short, i)
    <3> TAKE i \in 1..Len(items)
    <3>1. CASE i \in JumpItems
      BY <1>1, <1>2, <3>1, Grown DEF sizeWhen
    <3>2. CASE i \notin JumpItems
      <4>1. items'[i].size = items[i].size
        BY <1>1, <3>2, Grown, Sized DEF JumpItems
      <4> QED BY <1>2, <3>2, <4>1 DEF sizeWhen
    <3> QED BY <3>1, <3>2
  <2>2. [i \in DOMAIN items' |-> [size |-> sizeWhen(short, i)']] = [i \in DOMAIN items |-> [size |-> sizeWhen(short, i)]]
    BY <1>1, <2>1
  <2>3. PICK at : at = itemOffsets([i \in DOMAIN items |-> [size |-> sizeWhen(short, i)]])
    OBVIOUS
  <2>4. CanBeShort(short) <=> \A i \in short : reachesShort(items[i], i, at)
    BY <2>3 DEF CanBeShort
  <2>5. CanBeShort(short)' <=> \A i \in short : reachesShort(items[i], i, at)'
    BY <2>2, <2>3 DEF CanBeShort
  <2>6. \A i \in short : items'[i].target = items[i].target
    BY <1>1, Grown DEF JumpItems
  <2>7. \A i \in short : reachesShort(items[i], i, at)' <=> reachesShort(items[i], i, at)
    BY <2>6 DEF reachesShort, asm_layout
  <2> QED BY <2>4, <2>5, <2>7
<1> QED BY <1>2, <1>3, <1>4


\* A jump that reaches when some jumps are short reaches when more are: the items between it and its label are no larger.
LEMMA StillReaches ==
  ASSUME ItemsOK, LabelsInText, NEW short \in SUBSET ShortJumps, CanBeShort(short), NEW i \in short
  PROVE  reachesShort(items[i], i, itemOffsets(sizedItems))
<1> DEFINE n == Len(items)
           b == [j \in DOMAIN items |-> [size |-> sizeWhen(short, j)]]
           at == itemOffsets(sizedItems)
           bt == itemOffsets(b)
           k == label_item[items[i].target]
<1>1. n \in Nat /\ DOMAIN items = 1..n /\ Len(sizedItems) = n
  BY Sized
<1>2. reachesShort(items[i], i, bt)
  BY DEF CanBeShort
<1>3. k \in 1..(n + 1) /\ items[i].target \in DOMAIN label_item /\ bt[k] - (bt[i] + 2) \in -128..127
  BY <1>2 DEF reachesShort, LabelsInText
<1>4. i \in 1..(n + 1)
  BY <1>1 DEF ShortJumps, JumpItems
<1>5. ASSUME NEW j \in 1..n PROVE sizedItems[j].size \in Nat /\ b[j].size \in Nat /\ sizedItems[j].size <= b[j].size
  <2>1. ItemOK(items[j]) /\ ItemOK(sizedItems[j]) /\ sizedItems[j].size = sizeWhen(ShortJumps, j) /\ b[j].size = sizeWhen(short, j)
    BY <1>1, Sized DEF ItemsOK
  <2>2. CASE j \notin JumpItems
    BY <2>1, <2>2 DEF sizeWhen, ItemOK
  <2>3. CASE j \in JumpItems
    <3>1. sizeWhen(ShortJumps, j) = jumpSize([is_short |-> j \in ShortJumps, condition |-> items[j].condition])
      BY <2>3 DEF sizeWhen
    <3>2. sizeWhen(short, j) = jumpSize([is_short |-> j \in short, condition |-> items[j].condition])
      BY <2>3 DEF sizeWhen
    <3>3. CASE j \in short
      <4>1. j \in ShortJumps
        BY <3>3
      <4> QED BY <2>1, <3>1, <3>2, <3>3, <4>1 DEF jumpSize
    <3>4. CASE j \notin short /\ j \notin ShortJumps
      BY <2>1, <3>1, <3>2, <3>4 DEF jumpSize
    <3>5. CASE j \notin short /\ j \in ShortJumps
      <4>1. sizeWhen(ShortJumps, j) = 2
        BY <3>1, <3>5 DEF jumpSize
      <4>2. sizeWhen(short, j) \in {5, 6}
        BY <3>2, <3>5 DEF jumpSize
      <4> QED BY <2>1, <4>1, <4>2
    <3> QED BY <3>3, <3>4, <3>5
  <2> QED BY <2>2, <2>3
<1>6. Len(b) = n
  <2>1. b = [j \in 1..n |-> b[j]]
    BY <1>1
  <2> HIDE DEF b
  <2> QED BY <1>1, <2>1, Sequence
<1> HIDE DEF b
<1>7. CASE i <= k
  <2>1. /\ at[i] \in Nat /\ at[k] \in Nat /\ bt[i] \in Nat /\ bt[k] \in Nat
        /\ 0 <= at[k] - at[i] /\ at[k] - at[i] <= bt[k] - bt[i]
    BY <1>1, <1>3, <1>4, <1>5, <1>6, <1>7, Distances
  <2> HIDE DEF n, at, bt, k
  <2>2. at[k] - (at[i] + 2) \in -128..127
    BY <1>3, <2>1
  <2> QED BY <1>3, <2>2 DEF reachesShort, at, k
<1>8. CASE ~(i <= k)
  <2>0. k <= i
    BY <1>1, <1>3, <1>4, <1>8
  <2>1. /\ at[i] \in Nat /\ at[k] \in Nat /\ bt[i] \in Nat /\ bt[k] \in Nat
        /\ 0 <= at[i] - at[k] /\ at[i] - at[k] <= bt[i] - bt[k]
    BY <1>1, <1>3, <1>4, <1>5, <1>6, <2>0, Distances
  <2> HIDE DEF n, at, bt, k
  <2>2. at[k] - (at[i] + 2) \in -128..127
    BY <1>3, <2>1
  <2> QED BY <1>3, <2>2 DEF reachesShort, at, k
<1> QED BY <1>7, <1>8


-----------------------------------------------------------------------------
(* The invariant                                                           *)

\* While the lines are read, what is read is a text, and the last label is one of it
TextInv == pc = "lines" => source \in Sources /\ line \in Nat \ {0} /\ scope \in Scopes(source)
AsmInv == LayoutInv /\ TextInv

LEMMA AsmInit == Init => AsmInv
<1> SUFFICES ASSUME Init PROVE AsmInv
  OBVIOUS
<1>1. items = <<>> /\ label_item = <<>> /\ pc \in {"lines", "object"}
  BY DEF Init, assembler_init
<1>2. items \in Seq(Range(items)) /\ Len(items) = 0 /\ DOMAIN items = {} /\ DOMAIN label_item = {}
  BY <1>1
<1>3. JumpItems = {} /\ ShortJumps = {}
  BY <1>2 DEF JumpItems, ShortJumps
<1>4. Shapes /\ NoneTooLong /\ ShortJumpsReach
  BY <1>1, <1>2, <1>3 DEF Shapes, ItemsOK, LabelsInText, NoneTooLong, ShortJumpsReach
<1>5. TextInv
  <2>1. <<>> \in Scopes(source)
    BY DEF Scopes
  <2>2. pc = "lines" => source \in Sources /\ line = 1 /\ scope = <<>>
    BY DEF Init, assembler_init
  <2> HIDE DEF Init
  <2> QED BY <2>1, <2>2 DEF TextInv
<1> QED BY <1>3, <1>4, <1>5 DEF AsmInv, LayoutInv

LEMMA AppendOne ==
  ASSUME NEW list, list \in Seq(Range(list)), NEW x
  PROVE  LET longer == Append(list, x)
         IN  /\ longer \in Seq(Range(longer)) /\ Len(longer) = Len(list) + 1
             /\ longer[Len(list) + 1] = x /\ \A i \in 1..Len(list) : longer[i] = list[i]
<1>1. list \in Seq(Range(list) \cup {x}) /\ x \in Range(list) \cup {x}
  BY SeqMonotonic
<1> DEFINE longer == Append(list, x)
<1>2. longer \in Seq(Range(list) \cup {x}) /\ Len(longer) = Len(list) + 1
  BY <1>1, AppendProperties
<1>3. longer[Len(list) + 1] = x /\ \A i \in 1..Len(list) : longer[i] = list[i]
  BY <1>1, AppendProperties
<1>4. Len(list) + 1 \in Nat
  OBVIOUS
<1> HIDE DEF longer
<1>5. longer = [i \in 1..(Len(list) + 1) |-> longer[i]]
  BY <1>2
<1>6. longer \in Seq(Range(longer))
  BY <1>4, <1>5, Sequence
<1> QED BY <1>2, <1>3, <1>6 DEF longer

\* As long as lines are read, every jump is a short one.
LEMMA LinesShort ==
  ASSUME LayoutInv, TextInv, Shapes', TextInv', ShortJumps' = JumpItems', pc' # "finish"
  PROVE  AsmInv'
<1>1. NoneTooLong'
  BY DEF NoneTooLong
<1>2. ShortJumpsReach'
  BY DEF ShortJumpsReach
<1> QED BY <1>1, <1>2 DEF AsmInv, LayoutInv

\* A line of the text is one of the lines that SourcesAssumption is about.
LEMMA TextIsLine ==
  ASSUME TextInv, pc = "lines", line <= Len(source)
  PROVE  /\ source \in Sources /\ text \in Range(source) /\ line + 1 \in Nat \ {0} /\ IsText(source) /\ IsLine(text)
         /\ text.is = "instruction" => IsEncoding(Encode(text.m, text.cc, operandsOf(text, scope)), text, operandsOf(text, scope))
<1>1. source \in Sources /\ line \in Nat \ {0} /\ scope \in Scopes(source)
  BY DEF TextInv
<1>2. IsText(source) /\ source \in Seq(Range(source))
  BY <1>1, SourcesAssumption DEF IsText
<1>3. line \in 1..Len(source) /\ DOMAIN source = 1..Len(source)
  BY <1>1, <1>2
<1>4. text \in Range(source)
  BY <1>3 DEF text, Range
<1> HIDE DEF text
<1> QED BY <1>1, <1>2, <1>4, SourcesAssumption

LEMMA LabelStep ==
  ASSUME AsmInv, label
  PROVE  AsmInv'
<1> DEFINE name == asm_symbol_name(text.name, scope)
<1>1. pc = "lines" /\ line <= Len(source) /\ text.is = "label" /\ line' = line + 1 /\ source' = source /\ items' = items
  BY DEF label, reading
<1>2. source \in Sources /\ text \in Range(source) /\ line' \in Nat \ {0}
  BY <1>1, TextIsLine DEF AsmInv
<1>3. scope' = IF text.name.dot THEN scope ELSE name
  BY DEF label
<1>4. scope' \in Scopes(source)
  <2>1. CASE text.name.dot
    BY <1>1, <1>3, <2>1 DEF AsmInv, TextInv
  <2>2. CASE ~text.name.dot
    <3>1. asm_symbol_name(text.name, scope) = asm_symbol_name(text.name, <<>>)
      BY <2>2 DEF asm_symbol_name
    <3> HIDE DEF text
    <3> QED BY <1>1, <1>2, <1>3, <2>2, <3>1 DEF Scopes
  <2> QED BY <2>1, <2>2
<1>5. pc' \in {"lines", "failed"}
  BY <1>1 DEF label, asm_fail, going
<1>6. Len(items) + 1 \in 1..(Len(items) + 1)
  BY DEF AsmInv, LayoutInv, Shapes, ItemsOK
<1>7. \/ label_item' = label_item
      \/ label_item' = [n \in DOMAIN label_item \cup {name} |-> IF n = name THEN Len(items) + 1 ELSE label_item[n]]
  BY DEF label
<1> HIDE DEF name
<1>8. LabelsInText'
  BY <1>1, <1>6, <1>7 DEF AsmInv, LayoutInv, Shapes, LabelsInText
<1>9. Shapes' /\ ShortJumps' = JumpItems'
  BY <1>1, <1>8 DEF AsmInv, LayoutInv, Shapes, ItemsOK, ShortJumps, JumpItems
<1>10. TextInv'
  BY <1>1, <1>2, <1>4, <1>5 DEF TextInv
<1> QED BY <1>5, <1>9, <1>10, LinesShort DEF AsmInv


\* The lines that add no code and no label of code
LEMMA PlainLineStep ==
  ASSUME AsmInv, section_line \/ declare_line \/ asm_data_line \/ times_line \/ align_line
  PROVE  AsmInv'
<1>1. /\ pc = "lines" /\ line <= Len(source) /\ line' = line + 1
      /\ source' = source /\ items' = items /\ label_item' = label_item /\ scope' = scope
  BY DEF section_line, declare_line, asm_data_line, times_line, align_line, reading
<1>2. pc' \in {"lines", "failed"}
  <2>1. CASE section_line
    BY <1>1, <2>1 DEF section_line, asm_fail, going
  <2>2. CASE declare_line
    BY <1>1, <2>2 DEF declare_line, going
  <2>3. CASE asm_data_line
    BY <1>1, <2>3 DEF asm_data_line, asm_fail, going
  <2>4. CASE times_line
    BY <1>1, <2>4 DEF times_line, going
  <2>5. CASE align_line
    BY <1>1, <2>5 DEF align_line, asm_fail, going
  <2> QED BY <2>1, <2>2, <2>3, <2>4, <2>5
<1>3. Shapes' /\ ShortJumps' = JumpItems'
  BY <1>1 DEF AsmInv, LayoutInv, Shapes, ItemsOK, LabelsInText, ShortJumps, JumpItems
<1>4. TextInv'
  BY <1>1, TextIsLine DEF AsmInv, TextInv
<1> QED BY <1>2, <1>3, <1>4, LinesShort DEF AsmInv

LEMMA InstructionStep ==
  ASSUME AsmInv, asm_instruction
  PROVE  AsmInv'
<1>1. /\ pc = "lines" /\ line <= Len(source) /\ text.is = "instruction" /\ line' = line + 1
      /\ source' = source /\ label_item' = label_item /\ scope' = scope
  BY DEF asm_instruction, reading
<1>2. source \in Sources /\ line' \in Nat \ {0} /\ IsEncoding(Encode(text.m, text.cc, operandsOf(text, scope)), text, operandsOf(text, scope))
  BY <1>1, TextIsLine DEF AsmInv
<1> DEFINE e == enc_finish(Encode(text.m, text.cc, operandsOf(text, scope)))
<1>3. Len(e.bytes) \in Nat
  <2>1. PICK f : f = Encode(text.m, text.cc, operandsOf(text, scope))
    OBVIOUS
  <2>2. "bytes" \in DOMAIN f /\ f.bytes \in Seq(0..255)
    BY <1>2, <2>1 DEF IsEncoding
  <2>3. enc_finish(f).bytes = f.bytes
    BY <2>2 DEF enc_finish
  <2> QED BY <2>1, <2>2, <2>3
<1>4. /\ pc' \in {"lines", "failed"}
      /\ \/ items' = items
         \/ \E item : items' = Append(items, item) /\ ItemOK(item) /\ (item.is_jump => item.is_short)
  <2> DEFINE ops == operandsOf(text, scope)
             cc == IF text.m = "j" THEN asm_condition(text.cc) ELSE -1
  <2>1. \/ items' = items /\ pc' = "failed"
        \/ items' = Append(items, Jump(cc, ops[1].symbol)) /\ pc' = pc
        \/ items' = Append(items, Item(e)) /\ pc' = pc
    BY DEF asm_instruction, asm_fail, going
  <2> HIDE DEF ops, cc, e
  <2>2. CASE items' = Append(items, Jump(cc, ops[1].symbol)) /\ pc' = pc
    <3>1. ItemOK(Jump(cc, ops[1].symbol)) /\ Jump(cc, ops[1].symbol).is_short
      BY DEF Jump, ItemOK
    <3> QED BY <1>1, <2>2, <3>1
  <2>3. CASE items' = Append(items, Item(e)) /\ pc' = pc
    <3>1. ItemOK(Item(e)) /\ ~Item(e).is_jump
      BY <1>3 DEF Item, ItemOK
    <3> QED BY <1>1, <2>3, <3>1
  <2> QED BY <2>1, <2>2, <2>3
<1>5. Shapes' /\ ShortJumps' = JumpItems'
  <2>1. CASE items' = items
    BY <1>1, <2>1 DEF AsmInv, LayoutInv, Shapes, ItemsOK, LabelsInText, ShortJumps, JumpItems
  <2>2. ASSUME NEW item, items' = Append(items, item), ItemOK(item), item.is_jump => item.is_short
        PROVE  Shapes' /\ ShortJumps' = JumpItems'
    <3>1. items \in Seq(Range(items)) /\ Len(items) \in Nat
      BY DEF AsmInv, LayoutInv, Shapes, ItemsOK
    <3>2. /\ items' \in Seq(Range(items')) /\ Len(items') = Len(items) + 1
          /\ items'[Len(items) + 1] = item /\ \A i \in 1..Len(items) : items'[i] = items[i]
      BY <2>2, <3>1, AppendOne
    <3>3. \A i \in 1..Len(items') : i \in 1..Len(items) \/ i = Len(items) + 1
      BY <3>1, <3>2
    <3>4. ItemsOK'
      BY <2>2, <3>2, <3>3 DEF AsmInv, LayoutInv, Shapes, ItemsOK
    <3>5. LabelsInText'
      BY <1>1, <3>1, <3>2 DEF AsmInv, LayoutInv, Shapes, LabelsInText
    <3>6. DOMAIN items' = 1..Len(items') /\ DOMAIN items = 1..Len(items)
      BY <3>1, <3>2
    <3>7. \A i \in 1..Len(items) : items[i].is_jump => items[i].is_short
      BY <1>1, <3>6 DEF AsmInv, LayoutInv, ShortJumps, JumpItems
    <3>8. \A i \in DOMAIN items' : items'[i].is_jump => items'[i].is_short
      BY <2>2, <3>2, <3>3, <3>6, <3>7
    <3> QED BY <3>4, <3>5, <3>8 DEF Shapes, ShortJumps, JumpItems
  <2> QED BY <1>4, <2>1, <2>2
<1>6. TextInv'
  BY <1>1, <1>2 DEF AsmInv, TextInv
<1> QED BY <1>4, <1>5, <1>6, LinesShort DEF AsmInv

\* A round keeps what can be short, short.
LEMMA LayoutStep ==
  ASSUME AsmInv, asm_layout
  PROVE  AsmInv'
<1>1. ItemsOK /\ LabelsInText /\ NoneTooLong
  BY DEF AsmInv, LayoutInv, Shapes
<1>2. Len(items) \in Nat /\ DOMAIN items = 1..Len(items) /\ DOMAIN items' = 1..Len(items)
  BY <1>1, Grown, Sized
<1>3. label_item' = label_item /\ offsets' = itemOffsets(sizedItems) /\ pc' \in {"layout", "finish"}
  BY DEF asm_layout
<1>4. Shapes'
  BY <1>1, <1>3, Grown DEF Shapes, ItemsOK, LabelsInText
<1>5. NoneTooLong'
  <2> SUFFICES ASSUME NEW short \in SUBSET JumpItems', CanBeShort(short)', NEW i \in short
               PROVE  i \in ShortJumps'
    BY DEF NoneTooLong
  <2>1. short \in SUBSET JumpItems /\ CanBeShort(short) /\ JumpItems' = JumpItems
    BY <1>1, SameChoices
  <2>2. short \in SUBSET ShortJumps
    BY <1>1, <2>1 DEF NoneTooLong
  <2>3. reachesShort(items[i], i, offsets')
    BY <1>1, <1>3, <2>1, <2>2, StillReaches
  <2>4. i \in 1..Len(items) /\ items[i].is_jump /\ items[i].is_short
    BY <1>2, <2>2 DEF ShortJumps, JumpItems
  <2>5. items'[i].is_short
    BY <1>1, <2>3, <2>4, Grown
  <2> QED BY <2>1, <2>5 DEF ShortJumps
<1>6. ShortJumpsReach'
  <2> SUFFICES ASSUME pc' = "finish"
               PROVE  offsets' = itemOffsets(items') /\ \A i \in ShortJumps' : reachesShort(items[i], i, offsets)'
    BY DEF ShortJumpsReach
  <2>1. items' = sizedItems
    BY DEF asm_layout
  <2>2. ASSUME NEW i \in ShortJumps' PROVE reachesShort(items[i], i, offsets)'
    <3>1. i \in 1..Len(items) /\ items'[i].is_jump /\ items'[i].is_short
      BY <1>2 DEF ShortJumps, JumpItems
    <3>2. items[i].is_jump /\ items[i].is_short /\ items'[i].target = items[i].target
      BY <1>1, <3>1, Grown
    <3>3. reachesShort(items[i], i, offsets')
      BY <1>1, <3>1, <3>2, Grown
    <3> QED BY <1>3, <3>2, <3>3 DEF reachesShort
  <2> QED BY <1>3, <2>1, <2>2
<1>7. TextInv' /\ pc' # "lines"
  BY <1>3 DEF TextInv
<1> QED BY <1>4, <1>5, <1>6, <1>7 DEF AsmInv, LayoutInv

\* Once the jumps have their sizes, and while a program is made of the object, the items stay.
LEMMA LaterStep ==
  ASSUME AsmInv, items' = items, label_item' = label_item, offsets' = offsets,
         pc' \notin {"lines", "finish"}
  PROVE  AsmInv'
<1>1. Shapes' /\ JumpItems' = JumpItems /\ ShortJumps' = ShortJumps
  BY DEF AsmInv, LayoutInv, Shapes, ItemsOK, LabelsInText, JumpItems, ShortJumps
<1>2. \A short \in SUBSET JumpItems : CanBeShort(short)' <=> CanBeShort(short)
  BY <1>1 DEF CanBeShort, sizeWhen, reachesShort
<1>3. NoneTooLong'
  BY <1>1, <1>2 DEF AsmInv, LayoutInv, NoneTooLong
<1> QED BY <1>1, <1>3 DEF AsmInv, LayoutInv, ShortJumpsReach, TextInv


LEMMA AsmStep == AsmInv /\ [Next]_vars => AsmInv'
<1> SUFFICES ASSUME AsmInv, [Next]_vars PROVE AsmInv'
  OBVIOUS
<1>1. CASE assemble
  <2>1. CASE label
    BY <2>1, LabelStep
  <2>2. CASE section_line \/ declare_line \/ asm_data_line \/ times_line \/ align_line
    BY <2>2, PlainLineStep
  <2>3. CASE asm_instruction
    BY <2>3, InstructionStep
  <2>4. CASE end_of_source
    BY <2>4, LaterStep DEF end_of_source
  <2>5. CASE asm_layout
    BY <2>5, LayoutStep
  <2>6. CASE asm_finish_text
    <3>1. items' = items /\ label_item' = label_item /\ offsets' = offsets /\ pc' \in {"failed", "check"}
      BY <2>6 DEF asm_finish_text, asm_fail
    <3> QED BY <3>1, LaterStep
  <2>7. CASE check_symbols
    <3>1. items' = items /\ label_item' = label_item /\ offsets' = offsets /\ pc' \in {"failed", "assembled"}
      BY <2>7 DEF check_symbols, asm_fail
    <3> QED BY <3>1, LaterStep
  <2> QED BY <1>1, <2>1, <2>2, <2>3, <2>4, <2>5, <2>6, <2>7 DEF assemble, x64_assemble
<1>2. CASE write_exe
  <2>1. items' = items /\ label_item' = label_item /\ offsets' = offsets /\ pc' \in {"unwritten", "written"}
    BY <1>2 DEF write_exe, done, refuse
  <2> QED BY <2>1, LaterStep
<1>3. CASE write_elf
  BY <1>3, LaterStep DEF write_elf, done
<1>4. CASE write_coff
  BY <1>4, LaterStep DEF write_coff, done
<1>5. CASE read_coff
  <2>1. items' = items /\ label_item' = label_item /\ offsets' = offsets /\ pc' \in {"unwritten", "read"}
    BY <1>5 DEF read_coff, done, refuse
  <2> QED BY <2>1, LaterStep
<1>6. CASE link
  BY <1>6, LaterStep DEF link, done
<1>7. CASE finished \/ UNCHANGED vars
  <2>1. UNCHANGED vars
    BY <1>7 DEF finished
  <2>2. items' = items /\ label_item' = label_item /\ offsets' = offsets /\ pc' = pc /\ source' = source /\ line' = line /\ scope' = scope
    BY <2>1 DEF vars
  <2>3. Shapes' /\ JumpItems' = JumpItems /\ ShortJumps' = ShortJumps /\ TextInv' /\ ShortJumpsReach'
    BY <2>2 DEF AsmInv, LayoutInv, Shapes, ItemsOK, LabelsInText, JumpItems, ShortJumps, TextInv, ShortJumpsReach, reachesShort
  <2>4. \A short \in SUBSET JumpItems : CanBeShort(short)' <=> CanBeShort(short)
    BY <2>2, <2>3 DEF CanBeShort, sizeWhen, reachesShort
  <2>5. NoneTooLong'
    BY <2>3, <2>4 DEF AsmInv, LayoutInv, NoneTooLong
  <2> QED BY <2>2, <2>3, <2>5 DEF AsmInv, LayoutInv
<1> QED BY <1>1, <1>2, <1>3, <1>4, <1>5, <1>6, <1>7 DEF Next

\* The jumps are as short as they can be, as the header of x64_asm.c says. What
\* the rounds keep is that every choice of short jumps in which all of them
\* reach has only jumps that are still short: making others long brings no two
\* items closer to each other than they are with that choice.
THEOREM ShortestAlways == Spec => []JumpsShortest
<1>1. AsmInv => JumpsShortest
  BY DEF AsmInv, LayoutInv, NoneTooLong, JumpsShortest
<1> QED BY AsmInit, AsmStep, <1>1, PTL DEF Spec

\* And the displacement of each short jump fits its byte, with the sizes that
\* the last round of asm_layout leaves.
THEOREM ShortAlwaysReach == Spec => []ShortJumpsReach
<1>1. AsmInv => ShortJumpsReach
  BY DEF AsmInv, LayoutInv
<1> QED BY AsmInit, AsmStep, <1>1, PTL DEF Spec

\* A round makes a short jump long and none short, or it is the last: there are
\* at most as many rounds as jumps, and one more.
THEOREM EveryRoundGrows == Spec => [][RoundsGrow]_vars
<1>1. AsmInv /\ [Next]_vars => [RoundsGrow]_vars
  <2> SUFFICES ASSUME AsmInv, Next, pc = "layout"
               PROVE  /\ JumpItems' = JumpItems /\ ShortJumps' \subseteq ShortJumps
                      /\ pc' = "finish" \/ (pc' = "layout" /\ ShortJumps' # ShortJumps)
    BY DEF RoundsGrow
  <2>1. asm_layout
    BY DEF Next, assemble, x64_assemble, label, section_line, declare_line, asm_data_line, times_line, align_line, asm_instruction, reading,
           end_of_source, asm_finish_text, check_symbols, write_exe, write_elf, write_coff, read_coff, link, finished
  <2>2. ItemsOK
    BY DEF AsmInv, LayoutInv, Shapes
  <2>3. JumpItems' = JumpItems /\ ShortJumps' \subseteq ShortJumps
    BY <2>1, <2>2, SameChoices
  <2>4. CASE items' = sizedItems
    BY <2>1, <2>3, <2>4 DEF asm_layout
  <2>5. CASE items' # sizedItems
    <3>1. PICK i \in 1..Len(items) : items'[i] # sizedItems[i]
      <4>1. items' = [i \in 1..Len(items) |-> items'[i]] /\ sizedItems = [i \in 1..Len(items) |-> sizedItems[i]]
        BY <2>1, <2>2, Grown, Sized
      <4> QED BY <2>5, <4>1
    <3>2. items[i].is_jump /\ items[i].is_short /\ ~items'[i].is_short
      BY <2>1, <2>2, <3>1, Grown
    <3>3. i \in ShortJumps /\ i \notin ShortJumps'
      BY <2>2, <3>2, Sized DEF ShortJumps, JumpItems
    <3> QED BY <2>1, <2>3, <2>5, <3>3 DEF asm_layout
  <2> QED BY <2>4, <2>5
<1> QED BY AsmInit, AsmStep, <1>1, PTL DEF Spec
=============================================================================
