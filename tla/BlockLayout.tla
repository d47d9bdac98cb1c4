---------------------------- MODULE BlockLayout -----------------------------
(* compute_block_layout: the loop that cuts an array of count elements into  *)
(* world_size contiguous blocks.  The ring modules use its result in closed  *)
(* form (layout_count, layout_offset of RingSchedule); this module has the   *)
(* loop itself, one iteration a step.                                        *)
EXTENDS RingSchedule

CONSTANTS
    Counts,       \* arguments the function is called with: element counts
    WorldSizes    \* and world sizes

ASSUME LayoutAssumption == Counts \subseteq Nat /\ WorldSizes \subseteq Int

VARIABLES
    count, world_size,       \* the arguments
    status,                  \* "running", or what the function returned
    block, running_offset,   \* its locals
    counts, offsets          \* layout.counts, layout.offsets

vars == <<count, world_size, status, block, running_offset, counts, offsets>>

base      == count \div world_size
remainder == count % world_size

Blocks == 0..(world_size - 1)

Init ==
    /\ count \in Counts
    /\ world_size \in WorldSizes
    /\ status = "running"
    /\ block = 0
    /\ running_offset = 0
    /\ counts  = [b \in Blocks |-> 0]
    /\ offsets = [b \in Blocks |-> 0]

RejectWorldSize ==
    /\ status = "running"
    /\ world_size <= 0
    /\ status' = "PG_ERR_INVALID_ARGUMENT"
    /\ UNCHANGED <<count, world_size, block, running_offset, counts, offsets>>

\* Mistakes: blocks rounded up with the rest for the last one; rounded down
\* with nothing for the remainder; the whole remainder in the last block.
block_count_up ==
    LET rounded == (count + world_size - 1) \div world_size
    IN  IF block = world_size - 1 THEN count - running_offset ELSE rounded
block_count_down == base
block_count_last == base + (IF block = world_size - 1 THEN remainder ELSE 0)

block_count == base + (IF block < remainder THEN 1 ELSE 0)

LayOutBlock ==
    /\ status = "running"
    /\ world_size > 0
    /\ block < world_size
    /\ counts'  = [counts EXCEPT ![block] = block_count]
    /\ offsets' = [offsets EXCEPT ![block] = running_offset]
    /\ running_offset' = running_offset + block_count
    /\ block' = block + 1
    /\ UNCHANGED <<count, world_size, status>>

ReturnLayout ==
    /\ status = "running"
    /\ world_size > 0
    /\ block >= world_size
    /\ status' = "PG_SUCCESS"
    /\ UNCHANGED <<count, world_size, block, running_offset, counts, offsets>>

Next == RejectWorldSize \/ LayOutBlock \/ ReturnLayout

Spec == Init /\ [][Next]_vars

-----------------------------------------------------------------------------

TypeOK ==
    /\ count \in Nat
    /\ world_size \in Int
    /\ status \in {"running", "PG_SUCCESS", "PG_ERR_INVALID_ARGUMENT"}
    /\ block \in Nat
    /\ running_offset \in Nat
    /\ counts \in [Blocks -> Nat]
    /\ offsets \in [Blocks -> Nat]

BlockOf(b) == offsets[b]..(offsets[b] + counts[b] - 1)

\* The layout a successful call returns (block_layout.cpp:18-27) tiles the
\* array: every element lies in a block, blocks do not overlap, no block
\* reaches past the array.
LayoutTiles ==
    status = "PG_SUCCESS" =>
        /\ \A e \in 0..(count - 1) : \E b \in Blocks : e \in BlockOf(b)
        /\ \A b \in Blocks : BlockOf(b) \subseteq 0..(count - 1)
        /\ \A b, c \in Blocks : b # c => BlockOf(b) \cap BlockOf(c) = {}

\* It is balanced, larger blocks first, so the first block is the longest one
\* (the temporary buffer of ring_reduce_scatter_inplace is sized by it).
LayoutBalanced ==
    status = "PG_SUCCESS" =>
        \A b, c \in Blocks : b <= c => counts[c] <= counts[b] /\ counts[b] <= counts[c] + 1

\* The loop computes the closed form the ring modules use, and its running
\* offset ends at the length of the array.
LayoutClosedForm ==
    status = "PG_SUCCESS" =>
        /\ running_offset = count
        /\ \A b \in Blocks : /\ counts[b]  = layout_count(count, world_size, b)
                             /\ offsets[b] = layout_offset(count, world_size, b)

=============================================================================
