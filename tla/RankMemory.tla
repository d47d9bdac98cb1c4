----------------------------- MODULE RankMemory -----------------------------
(* The buffers of every rank that both its program and the RDMA fabric touch *)
(* while an all-reduce runs: the caller's receive buffer, which the code     *)
(* reduces in place and calls workbuf, and the temporary buffer              *)
(* Reduce-Scatter receives into.                                             *)
(*                                                                           *)
(* An element's value is the sequence of contributions combined into it, a   *)
(* contribution being <<rank, call>>.  Sum, min and max are all modelled by  *)
(* concatenation, so a lost, doubled, reordered or stale contribution shows. *)
EXTENDS Integers, Sequences

CONSTANTS
    WorldSize,    \* number of ranks
    Count         \* elements in the array every rank contributes

ASSUME WorldAssumption == WorldSize \in Nat /\ WorldSize >= 2
ASSUME CountAssumption == Count \in Nat \ {0}

VARIABLE
    memory        \* memory[rank][buffer][element]

Ranks == 0..(WorldSize - 1)
NextRank(r) == (r + 1) % WorldSize
PrevRank(r) == (r - 1 + WorldSize) % WorldSize

\* Mistake: sized by the last block, which is never longer than the others.
TemporaryLength_of_last == Count \div WorldSize

\* resize(max_block_count): the largest block is the first one.
TemporaryLength == (Count + WorldSize - 1) \div WorldSize

BufferLength == [workbuf |-> Count, temporary_buffer |-> TemporaryLength]
Elements(buffer) == 0..(BufferLength[buffer] - 1)

\* A region is what a work request points at: some elements of one buffer.
Region(buffer, first, length) ==
    [buffer |-> buffer, first |-> first, length |-> length]

\* The regions that lie inside their buffer.
Regions ==
    {region \in [buffer : DOMAIN BufferLength, first : Nat, length : Nat] :
        region.first + region.length <= BufferLength[region.buffer]}

Cells(region) ==
    {<<region.buffer, e>> : e \in region.first..(region.first + region.length - 1)}

Overlap(one, other) == Cells(one) \cap Cells(other) # {}

\* What a region of rank r holds, element by element from 0.
Contents(r, region) ==
    [i \in 0..(region.length - 1) |-> memory[r][region.buffer][region.first + i]]

\* The memory after data is stored at a region of rank r.
Stored(r, region, data) ==
    [memory EXCEPT ![r][region.buffer] =
        [e \in Elements(region.buffer) |->
            IF e - region.first \in DOMAIN data THEN data[e - region.first]
                                               ELSE @[e]]]

Contributions == Ranks \X Nat

TypeOKMemory ==
    memory \in [Ranks ->
                 [workbuf          : [Elements("workbuf") -> Seq(Contributions)],
                  temporary_buffer : [Elements("temporary_buffer") -> Seq(Contributions)]]]

InitMemory ==
    memory = [r \in Ranks |->
                [workbuf          |-> [e \in Elements("workbuf") |-> <<>>],
                 temporary_buffer |-> [e \in Elements("temporary_buffer") |-> <<>>]]]

=============================================================================
