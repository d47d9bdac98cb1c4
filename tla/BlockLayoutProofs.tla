------------------------- MODULE BlockLayoutProofs --------------------------
(* For every count and every world size, compute_block_layout returns a      *)
(* layout that tiles the array and equals the closed form of RingSchedule.   *)
EXTENDS BlockLayout, RingScheduleProofs

\* What the blocks laid out so far satisfy.
Laid == 0..(block - 1)

Covered ==
    \A e \in 0..(running_offset - 1) : \E b \in Laid : e \in BlockOf(b)

Ordered ==
    /\ \A b \in Laid : offsets[b] + counts[b] <= running_offset
    /\ \A b, c \in Laid : b < c => offsets[b] + counts[b] <= offsets[c]

AsClosedForm ==
    /\ running_offset = layout_offset(count, world_size, block)
    /\ \A b \in Laid : /\ counts[b]  = layout_count(count, world_size, b)
                       /\ offsets[b] = layout_offset(count, world_size, b)

LoopInv ==
    /\ TypeOK
    /\ block > 0 => block <= world_size
    /\ status = "PG_SUCCESS" => world_size > 0 /\ block = world_size
    /\ world_size > 0 => Covered /\ Ordered /\ AsClosedForm

LEMMA LoopInit == Init => LoopInv
<1> SUFFICES ASSUME Init PROVE LoopInv
    OBVIOUS
<1>1. TypeOK
    BY LayoutAssumption DEF Init, TypeOK
<1>2. ASSUME world_size > 0 PROVE Covered /\ Ordered /\ AsClosedForm
    BY <1>1, <1>2, DivMod DEF Init, TypeOK, Covered, Ordered, AsClosedForm, Laid,
       layout_offset, LeastOf
<1> QED
    BY <1>1, <1>2 DEF LoopInv, Init

LEMMA LoopStep == LoopInv /\ [Next]_vars => LoopInv'
<1> SUFFICES ASSUME LoopInv, [Next]_vars PROVE LoopInv'
    OBVIOUS
<1> USE DEF LoopInv, TypeOK
<1>1. CASE LayOutBlock
    <2> USE <1>1 DEF LayOutBlock
    <2>1. /\ base \in Nat /\ remainder \in Nat
          /\ block_count \in Nat
          /\ block_count = layout_count(count, world_size, block)
        BY DivMod DEF base, remainder, block_count, layout_count
    <2>2. TypeOK'
        BY <2>1, SMTT(30) DEF Blocks
    <2>3. /\ block \in Blocks
          /\ counts'[block] = block_count /\ offsets'[block] = running_offset
          /\ \A b \in Laid : counts'[b] = counts[b] /\ offsets'[b] = offsets[b]
          /\ Laid' = Laid \cup {block}
        BY <2>1, SMTT(30) DEF Blocks, Laid
    <2>4. Covered'
        <3> SUFFICES ASSUME NEW e \in 0..(running_offset' - 1)
                     PROVE  \E b \in Laid' : e \in BlockOf(b)'
            BY DEF Covered
        <3>1. CASE e < running_offset
            <4>1. PICK b \in Laid : e \in BlockOf(b)
                BY <2>1, <3>1 DEF Covered
            <4> QED
                BY <4>1, <2>3 DEF BlockOf
        <3>2. CASE e >= running_offset
            BY <3>2, <2>1, <2>3 DEF BlockOf
        <3> QED
            BY <3>1, <3>2, <2>1
    <2>5. Ordered'
        <3>1. \A b \in Laid : /\ b \in Int /\ b < block
                             /\ offsets[b] \in Nat /\ counts[b] \in Nat
                             /\ offsets[b] + counts[b] <= running_offset
            BY DEF Ordered, Laid, Blocks
        <3>2. \A b \in Laid' : offsets'[b] + counts'[b] <= running_offset'
            BY <3>1, <2>1, <2>3
        <3>3. ASSUME NEW b \in Laid', NEW c \in Laid', b < c
              PROVE  offsets'[b] + counts'[b] <= offsets'[c]
            <4>1. b \in Laid
                BY <3>1, <3>3, <2>3
            <4>2. CASE c = block
                BY <4>1, <4>2, <3>1, <2>3
            <4>3. CASE c \in Laid
                BY <4>1, <4>3, <3>3, <2>3 DEF Ordered
            <4> QED
                BY <4>2, <4>3, <2>3
        <3> QED
            BY <3>2, <3>3 DEF Ordered
    <2>6. AsClosedForm'
        <3>1. running_offset' = layout_offset(count', world_size', block')
            BY <2>1, OffsetStep DEF AsClosedForm
        <3>2. ASSUME NEW b \in Laid'
              PROVE  /\ counts'[b]  = layout_count(count', world_size', b)
                     /\ offsets'[b] = layout_offset(count', world_size', b)
            BY <2>1, <2>3 DEF AsClosedForm
        <3> QED
            BY <3>1, <3>2 DEF AsClosedForm
    <2> QED
        BY <2>2, <2>4, <2>5, <2>6
<1>2. CASE RejectWorldSize
    BY <1>2 DEF RejectWorldSize, Blocks
<1>3. CASE ReturnLayout
    BY <1>3 DEF ReturnLayout, Blocks, Laid, Covered, Ordered, AsClosedForm, BlockOf
<1>4. CASE UNCHANGED vars
    BY <1>4 DEF vars, Blocks, Laid, Covered, Ordered, AsClosedForm, BlockOf
<1> QED
    BY <1>1, <1>2, <1>3, <1>4 DEF Next

LEMMA LoopInvariant == Spec => []LoopInv
BY LoopInit, LoopStep, PTL DEF Spec

\* Types hold for every argument (BlockLayout!TypeOK).
THEOREM LayoutTypeCorrect == Spec => []TypeOK
BY LoopInvariant, PTL DEF LoopInv

\* The returned layout is the closed form (BlockLayout!LayoutClosedForm).
THEOREM LayoutIsClosedForm == Spec => []LayoutClosedForm
<1>1. LoopInv => LayoutClosedForm
    BY OffsetEnd DEF LoopInv, TypeOK, AsClosedForm, LayoutClosedForm, Laid, Blocks
<1> QED
    BY <1>1, LoopInvariant, PTL

\* The returned layout tiles the array (BlockLayout!LayoutTiles).
THEOREM LayoutIsTiling == Spec => []LayoutTiles
<1>1. LoopInv => LayoutTiles
    <2> SUFFICES ASSUME LoopInv, status = "PG_SUCCESS" PROVE LayoutTiles
        BY DEF LayoutTiles
    <2> USE DEF LoopInv, TypeOK
    <2>1. running_offset = count /\ Laid = Blocks
        BY OffsetEnd DEF AsClosedForm, Laid, Blocks
    <2>2. \A e \in 0..(count - 1) : \E b \in Blocks : e \in BlockOf(b)
        BY <2>1 DEF Covered
    <2>3. \A b \in Blocks : BlockOf(b) \subseteq 0..(count - 1)
        BY <2>1 DEF Ordered, BlockOf
    <2>4. \A b, c \in Blocks : b # c => BlockOf(b) \cap BlockOf(c) = {}
        <3>1. ASSUME NEW b \in Blocks, NEW c \in Blocks, b < c
              PROVE  BlockOf(b) \cap BlockOf(c) = {}
            <4>1. offsets[b] + counts[b] <= offsets[c]
                BY <2>1, <3>1 DEF Ordered
            <4>2. offsets[b] \in Nat /\ counts[b] \in Nat /\ offsets[c] \in Nat /\ counts[c] \in Nat
                OBVIOUS
            <4> QED
                BY <4>1, <4>2 DEF BlockOf
        <3>2. TAKE b, c \in Blocks
        <3>3. HAVE b # c
        <3>4. b < c \/ c < b
            BY <3>3 DEF Blocks
        <3> QED
            BY <3>1, <3>4
    <2> QED
        BY <2>2, <2>3, <2>4 DEF LayoutTiles
<1> QED
    BY <1>1, LoopInvariant, PTL

\* Block sizes differ by at most one, larger first (BlockLayout!LayoutBalanced).
THEOREM LayoutIsBalanced == Spec => []LayoutBalanced
<1>1. LoopInv => LayoutBalanced
    <2> SUFFICES ASSUME LoopInv, status = "PG_SUCCESS",
                        NEW b \in Blocks, NEW c \in Blocks, b <= c
                 PROVE  counts[c] <= counts[b] /\ counts[b] <= counts[c] + 1
        BY DEF LayoutBalanced
    <2>1. /\ counts[b] = layout_count(count, world_size, b)
          /\ counts[c] = layout_count(count, world_size, c)
        BY DEF LoopInv, AsClosedForm, Laid, Blocks
    <2>2. count \div world_size \in Nat /\ count % world_size \in Nat
        BY DivMod DEF LoopInv, TypeOK
    <2> QED
        BY <2>1, <2>2 DEF layout_count, Blocks
<1> QED
    BY <1>1, LoopInvariant, PTL
=============================================================================
