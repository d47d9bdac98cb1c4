---------------------------- MODULE RingSchedule ----------------------------
(* The arithmetic every rank computes for itself: ring neighbours, the block *)
(* layout, the cut of a block into pieces, which block moves at which step   *)
(* and the 32-bit tag of a piece.  Pure operators, no state.                 *)
EXTENDS Integers

CONSTANTS
    kPieceMask,      \* largest piece index a tag can hold   (4095 in the code)
    kStepMask,       \* largest ring step a tag can hold      (127 in the code)
    kSequenceMask    \* sequence numbers wrap after this one (4095 in the code)

ASSUME MaskAssumption ==
    /\ kPieceMask \in Nat
    /\ kStepMask \in Nat
    /\ kSequenceMask \in Nat

LeastOf(a, b)    == IF a <= b THEN a ELSE b
GreatestOf(a, b) == IF a >= b THEN a ELSE b

\* The C++ % truncates towards zero: its result has the sign of the dividend.
TruncatedMod(value, modulus) ==
    IF value >= 0 THEN value % modulus ELSE -((-value) % modulus)

positive_mod(value, modulus) ==
    LET result == TruncatedMod(value, modulus)
    IN  IF result < 0 THEN result + modulus ELSE result

-----------------------------------------------------------------------------
(* compute_block_layout, in closed form (module BlockLayout has the loop).   *)

layout_count(count, size, block) ==
    (count \div size) + (IF block < count % size THEN 1 ELSE 0)

layout_offset(count, size, block) ==
    block * (count \div size) + LeastOf(block, count % size)

-----------------------------------------------------------------------------
(* Pieces of a block.                                                        *)

piece_elements_for(pipeline_piece_bytes, element_size) ==
    GreatestOf(1, pipeline_piece_bytes \div element_size)

piece_count_for(element_count, piece_elements) ==
    (element_count + piece_elements - 1) \div piece_elements

piece_length(element_count, piece_elements, piece) ==
    LeastOf(piece_elements, element_count - piece * piece_elements)

batch_count_for(send_pieces, recv_pieces, batch_capacity) ==
    (GreatestOf(send_pieces, recv_pieces) + batch_capacity - 1)
        \div batch_capacity

-----------------------------------------------------------------------------
(* The two phases of the ring.                                               *)

ReduceScatter == 0
AllGather     == 1

\* Mistake: All-Gather starts at the rank's own block, not at the one it owns.
send_block_own(rank, size, phase, step) == positive_mod(rank - step, size)

send_block(rank, size, phase, step) ==
    IF phase = ReduceScatter THEN positive_mod(rank - step, size)
                             ELSE positive_mod(rank - step + 1, size)

\* Mistake: both phases receive what All-Gather receives.
recv_block_same(rank, size, phase, step) == positive_mod(rank - step, size)

recv_block(rank, size, phase, step) ==
    IF phase = ReduceScatter THEN positive_mod(rank - step - 1, size)
                             ELSE positive_mod(rank - step, size)

\* The block a rank holds fully reduced when its Reduce-Scatter returns.
owned_block(rank, size) == positive_mod(rank + 1, size)

-----------------------------------------------------------------------------
(* Tags.  The code packs four fields by shifting; the fields do not overlap, *)
(* so the packed word is the mixed-radix number of the four masked fields.   *)

TagInRange(step, piece) == step <= kStepMask /\ piece <= kPieceMask

make_tag(sequence, phase, step, piece) ==
    (((sequence % (kSequenceMask + 1)) * 2 + phase) * (kStepMask + 1) + step)
        * (kPieceMask + 1) + piece

=============================================================================
