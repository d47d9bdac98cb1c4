--------------------------- MODULE VerbsRingData ----------------------------
(* What the buffers of every rank hold, for every number of ranks, array     *)
(* length, configuration and fault set: which contributions are combined     *)
(* into each element at every step of the ring, and so what a call returns.  *)
EXTENDS VerbsRingPositions

\* The contributions of n ranks to call c, from rank q backwards on the ring.
Run(q, n, c) == [i \in 1..n |-> <<Back(q, i - 1), c>>]

\* A block fully reduced: its ring of additions began at the rank after its
\* number and ended one behind.
Final(block, c) == Run(Back(block, 1), WorldSize, c)

\* What rank r holds at a step, in the block i ranks behind its own; done tells
\* whether the element was received (and reduced) in this step.
BlockValue(r, ph, st, c, i, done) ==
    IF ph = ReduceScatter
    THEN Run(r, IF i <= st \/ (i = st + 1 /\ done) THEN i + 1 ELSE 1, c)
    ELSE IF i < st \/ (i = st /\ done) \/ i = Size
         THEN Final(Back(r, i), c)
         ELSE Run(r, i + 1, c)

\* What rank r is to receive at a step.
Expected(r, ph, st, c) ==
    IF ph = ReduceScatter THEN Run(Back(r, 1), st + 1, c) ELSE Final(Back(r, st), c)

\* Pieces of the step that were waited for, that arrived, and that are in workbuf.
Reduced(r)  == RecvsPosted(r) - Len(recv_requests[r])
Received(r) == RecvsPosted(r) - Len(recv_queue[r])
Landed(r)   == IF phase[r] = ReduceScatter THEN Reduced(r) ELSE Received(r)

WorkbufAt(r, ph, st, c, n) ==
    \A i \in 0..Size : \A e \in BlockElements(Back(r, i)) :
        memory[r].workbuf[e] =
            BlockValue(r, ph, st, c, i, e < BlockOffset(Back(r, i)) + PieceStart(r, n))

ArrivedAt(r, block, value, from, to) ==
    \A x \in 0..(BlockCount(block) - 1) :
        PieceStart(r, from) <= x /\ x < PieceStart(r, to) =>
            memory[r].temporary_buffer[x] = value

UnderWayAt(s, sends, value) ==
    \A k \in 1..Len(sends) : \A x \in 0..(sends[k].sge.length - 1) :
        memory[s].workbuf[sends[k].sge.first + x] = value

-----------------------------------------------------------------------------
(* Sequences of contributions.                                               *)

LEMMA RunType ==
    ASSUME NEW q \in Ranks, NEW n \in 0..WorldSize, NEW c
    PROVE  Run(q, n, c) \in Seq(Ranks \X {c}) /\ Len(Run(q, n, c)) = n
<1>1. /\ n \in Nat /\ \A i \in 1..n : i - 1 \in 0..WorldSize
    BY WorldAssumption
<1>2. \A i \in 1..n : <<Back(q, i - 1), c>> \in Ranks \X {c}
    BY <1>1, BackFacts
<1> QED
    BY <1>1, <1>2 DEF Run

\* A rank's own contribution is put before those of the ranks behind it.
LEMMA RunJoins ==
    ASSUME NEW q \in Ranks, NEW n \in 0..Size, NEW c
    PROVE  Run(q, 1, c) \o Run(Back(q, 1), n, c) = Run(q, n + 1, c)
<1> DEFINE one == Run(q, 1, c)
           rest == Run(Back(q, 1), n, c)
           all == Run(q, n + 1, c)
           S == Ranks \X {c}
<1>1. /\ n \in Nat /\ n \in 0..WorldSize /\ 1 \in 0..WorldSize /\ n + 1 \in 0..WorldSize
      /\ Back(q, 1) \in Ranks /\ Size \in Nat /\ n <= Size
    BY WorldAssumption, BackFacts DEF Size
<1>2. /\ one \in Seq(S) /\ rest \in Seq(S) /\ all \in Seq(S)
      /\ Len(one) = 1 /\ Len(rest) = n /\ Len(all) = n + 1
    BY <1>1, RunType
<1>3. /\ one \o rest \in Seq(S) /\ Len(one \o rest) = 1 + n
      /\ \A i \in 1..(1 + n) : (one \o rest)[i] = IF i <= 1 THEN one[i] ELSE rest[i - 1]
    <2>1. /\ one \o rest \in Seq(S) /\ Len(one \o rest) = Len(one) + Len(rest)
          /\ \A i \in 1..Len(one) + Len(rest) :
                (one \o rest)[i] = IF i <= Len(one) THEN one[i] ELSE rest[i - Len(one)]
        BY <1>2, ConcatProperties, Zenon
    <2> HIDE DEF one, rest, S
    <2> QED
        BY <1>2, <2>1
<1>4. one[1] = <<Back(q, 0), c>> /\ \A i \in 1..n : rest[i] = <<Back(Back(q, 1), i - 1), c>>
    BY DEF Run
<1>5. \A i \in 1..(n + 1) : all[i] = <<Back(q, i - 1), c>>
    BY DEF Run
<1>6. ASSUME NEW i \in 1..(1 + n) PROVE (one \o rest)[i] = all[i]
    <2>1. i \in 1..(n + 1)
        BY <1>1
    <2>2. CASE i = 1
        <3>1. 1 - 1 = 0 /\ i <= 1
            BY <2>2
        <3> HIDE DEF one, rest, all
        <3> QED
            BY <1>3, <1>4, <1>5, <2>1, <2>2, <3>1
    <2>3. CASE i # 1
        <3>1. i - 1 \in 1..n /\ i - 1 - 1 \in 0..Size /\ (i - 1 - 1) + 1 = i - 1 /\ ~(i <= 1)
            BY <1>1, <2>3
        <3>2. Back(Back(q, 1), i - 1 - 1) = Back(q, i - 1)
            BY <3>1, BackFacts
        <3> HIDE DEF one, rest, all
        <3> QED
            BY <1>3, <1>4, <1>5, <2>1, <3>1, <3>2
    <2> QED
        BY <2>2, <2>3
<1> HIDE DEF one, rest, all, S
<1>7. Len(one \o rest) = Len(all) /\ \A i \in 1..Len(one \o rest) : (one \o rest)[i] = all[i]
    BY <1>1, <1>2, <1>3, <1>6
<1>8. one \o rest = all
    BY <1>2, <1>3, <1>7, SeqEqual, Zenon
<1> QED
    BY <1>8 DEF one, rest, all

\* A block fully reduced holds what every rank contributed, once each.
LEMMA FinalCombines ==
    ASSUME NEW block \in Ranks, NEW c
    PROVE  Combines(Final(block, c), c)
<1> DEFINE q == Back(block, 1)
<1>1. q \in Ranks /\ WorldSize \in 0..WorldSize /\ WorldSize = Size + 1 /\ Size \in Nat
    BY BackFacts, WorldAssumption DEF Size
<1> HIDE DEF q
<1>2. Len(Run(q, WorldSize, c)) = WorldSize
    BY <1>1, RunType
<1>3. ASSUME NEW r \in Ranks
      PROVE  \E i \in 1..WorldSize : Run(q, WorldSize, c)[i] = <<r, c>>
    <2>1. PICK i \in 0..Size : r = Back(q, i)
        BY <1>1, BackCovers
    <2>2. i + 1 \in 1..WorldSize /\ (i + 1) - 1 = i
        BY <1>1
    <2> QED
        BY <2>1, <2>2 DEF Run
<1> QED
    BY <1>2, <1>3 DEF Combines, Final, q

-----------------------------------------------------------------------------
(* What a rank holds, from step to step.                                     *)

\* How far behind a rank the blocks it receives and sends lie.
RecvIndex(ph, st) == IF ph = ReduceScatter THEN st + 1 ELSE st
SendIndex(ph, st) == IF ph = ReduceScatter THEN st ELSE IF st = 0 THEN Size ELSE st - 1

LEMMA BlockIndices ==
    ASSUME NEW r \in Ranks, NEW ph \in {ReduceScatter, AllGather}, NEW st \in 0..(WorldSize - 2)
    PROVE  /\ recv_block(r, WorldSize, ph, st) = Back(r, RecvIndex(ph, st))
           /\ send_block(r, WorldSize, ph, st) = Back(r, SendIndex(ph, st))
           /\ RecvIndex(ph, st) \in 0..Size /\ SendIndex(ph, st) \in 0..Size
<1>1. /\ st \in 0..(Size - 1) /\ Size \in Nat \ {0}
    BY WorldAssumption DEF Size
<1>2. RecvIndex(ph, st) \in 0..Size /\ SendIndex(ph, st) \in 0..Size
    BY <1>1 DEF RecvIndex, SendIndex
<1>3. ReduceScatter # AllGather
    BY DEF ReduceScatter, AllGather
<1> QED
    BY <1>2, <1>3, BlocksMoved DEF RecvIndex, SendIndex

\* A step begins with what the last one left, and only the block received
\* changes in it.
LEMMA ValueSteps ==
    ASSUME NEW r \in Ranks, NEW st \in 0..(Size - 1), NEW c, NEW i \in 0..Size
    PROVE  /\ BlockValue(r, ReduceScatter, 0, c, i, FALSE) = Run(r, 1, c)
           /\ \A ph \in {ReduceScatter, AllGather} : st + 1 <= Size - 1 =>
                 BlockValue(r, ph, st, c, i, TRUE) = BlockValue(r, ph, st + 1, c, i, FALSE)
           /\ st + 1 >= Size =>
                 /\ BlockValue(r, ReduceScatter, st, c, i, TRUE)
                      = BlockValue(r, AllGather, 0, c, i, FALSE)
                 /\ BlockValue(r, AllGather, st, c, i, TRUE) = Final(Back(r, i), c)
           /\ \A ph \in {ReduceScatter, AllGather} : i # RecvIndex(ph, st) =>
                 BlockValue(r, ph, st, c, i, TRUE) = BlockValue(r, ph, st, c, i, FALSE)
<1>1. Size \in Nat \ {0} /\ WorldSize = Size + 1
    BY WorldAssumption DEF Size
<1>2. ReduceScatter # AllGather
    BY DEF ReduceScatter, AllGather
<1>3. Final(Back(r, Size), c) = Run(r, Size + 1, c)
    <2>1. Back(Back(r, Size), 1) = r
        <3>1. Size \in 0..WorldSize /\ 1 \in 0..WorldSize /\ Size + 1 <= WorldSize
            BY <1>1
        <3> QED
            BY <1>1, <3>1, BackFacts
    <2> QED
        BY <1>1, <2>1 DEF Final
<1> USE <1>1, <1>2 DEF BlockValue
<1>4. BlockValue(r, ReduceScatter, 0, c, i, FALSE) = Run(r, 1, c)
    <2>1. CASE i = 0
        BY <2>1
    <2>2. CASE i # 0
        BY <2>2
    <2> QED
        BY <2>1, <2>2
<1>5. ASSUME st + 1 <= Size - 1
      PROVE  /\ BlockValue(r, ReduceScatter, st, c, i, TRUE)
                   = BlockValue(r, ReduceScatter, st + 1, c, i, FALSE)
             /\ BlockValue(r, AllGather, st, c, i, TRUE)
                   = BlockValue(r, AllGather, st + 1, c, i, FALSE)
    BY <1>5
<1>6. ASSUME st + 1 >= Size
      PROVE  /\ BlockValue(r, ReduceScatter, st, c, i, TRUE)
                   = BlockValue(r, AllGather, 0, c, i, FALSE)
             /\ BlockValue(r, AllGather, st, c, i, TRUE) = Final(Back(r, i), c)
    <2>1. st = Size - 1
        BY <1>6
    <2>2. CASE i = Size
        BY <1>3, <2>1, <2>2
    <2>3. CASE i # Size
        BY <2>1, <2>3
    <2> QED
        BY <2>2, <2>3
<1>7. ASSUME NEW ph \in {ReduceScatter, AllGather}, i # RecvIndex(ph, st)
      PROVE  BlockValue(r, ph, st, c, i, TRUE) = BlockValue(r, ph, st, c, i, FALSE)
    BY <1>7 DEF RecvIndex
<1> QED
    BY <1>4, <1>5, <1>6, <1>7

\* What reducing, or receiving, a piece makes of it.
LEMMA ValueReceived ==
    ASSUME NEW r \in Ranks, NEW st \in 0..(Size - 1), NEW c
    PROVE  /\ BlockValue(r, ReduceScatter, st, c, st + 1, FALSE)
                \o Expected(r, ReduceScatter, st, c)
                = BlockValue(r, ReduceScatter, st, c, st + 1, TRUE)
           /\ Expected(r, AllGather, st, c) = BlockValue(r, AllGather, st, c, st, TRUE)
           /\ Len(BlockValue(r, ReduceScatter, st, c, st + 1, FALSE)) = 1
           /\ Len(BlockValue(r, ReduceScatter, st, c, st + 1, TRUE)) = st + 2
           /\ Len(BlockValue(r, AllGather, st, c, st, FALSE)) = st + 1
           /\ Len(BlockValue(r, AllGather, st, c, st, TRUE)) = WorldSize
<1>1. /\ Size \in Nat \ {0} /\ WorldSize = Size + 1 /\ st \in Nat /\ st + 1 \in 0..Size
      /\ 1 \in 0..WorldSize /\ st + 1 \in 0..WorldSize /\ (st + 1) + 1 \in 0..WorldSize
      /\ ~(st + 1 <= st) /\ ~(st < st) /\ st # Size /\ (st + 1) + 1 = st + 2
      /\ WorldSize \in 0..WorldSize /\ st \in 0..WorldSize
    BY WorldAssumption DEF Size
<1>2. ReduceScatter # AllGather
    BY DEF ReduceScatter, AllGather
<1>3. /\ BlockValue(r, ReduceScatter, st, c, st + 1, FALSE) = Run(r, 1, c)
      /\ BlockValue(r, ReduceScatter, st, c, st + 1, TRUE) = Run(r, (st + 1) + 1, c)
      /\ BlockValue(r, AllGather, st, c, st, FALSE) = Run(r, st + 1, c)
      /\ BlockValue(r, AllGather, st, c, st, TRUE) = Final(Back(r, st), c)
    BY <1>1, <1>2 DEF BlockValue
<1>4. /\ Expected(r, ReduceScatter, st, c) = Run(Back(r, 1), st + 1, c)
      /\ Expected(r, AllGather, st, c) = Final(Back(r, st), c)
    BY <1>2 DEF Expected
<1>5. Run(r, 1, c) \o Run(Back(r, 1), st + 1, c) = Run(r, (st + 1) + 1, c)
    BY <1>1, RunJoins
<1>6. /\ Len(Run(r, 1, c)) = 1 /\ Len(Run(r, (st + 1) + 1, c)) = (st + 1) + 1
      /\ Len(Run(r, st + 1, c)) = st + 1
    BY <1>1, RunType
<1>7. Len(Final(Back(r, st), c)) = WorldSize
    <2>1. Back(Back(r, st), 1) \in Ranks
        BY <1>1, BackFacts
    <2> QED
        BY <1>1, <2>1, RunType DEF Final
<1> QED
    BY <1>1, <1>3, <1>4, <1>5, <1>6, <1>7

\* A rank sends what the next one expects.
LEMMA ValueSent ==
    ASSUME NEW s \in Ranks, NEW ph \in {ReduceScatter, AllGather}, NEW st \in 0..(Size - 1),
           NEW c, NEW done \in BOOLEAN
    PROVE  BlockValue(s, ph, st, c, SendIndex(ph, st), done) = Expected(NextRank(s), ph, st, c)
<1> DEFINE d == NextRank(s)
<1>1. /\ Size \in Nat \ {0} /\ WorldSize = Size + 1 /\ st \in Nat /\ st # Size
      /\ ReduceScatter # AllGather
    BY WorldAssumption DEF Size, ReduceScatter, AllGather
<1>2. d \in Ranks /\ Back(d, 1) = s
    BY Neighbours, PrevIsBack
<1>3. CASE ph = ReduceScatter
    <2>1. BlockValue(s, ph, st, c, st, done) = Run(s, st + 1, c)
        BY <1>1, <1>3 DEF BlockValue
    <2> QED
        BY <1>2, <1>3, <2>1 DEF SendIndex, Expected
<1>4. CASE ph = AllGather /\ st = 0
    <2>1. BlockValue(s, ph, st, c, Size, done) = Final(Back(s, Size), c)
        BY <1>1, <1>4 DEF BlockValue
    <2>2. Back(s, Size) = Back(d, 0)
        <3>1. Size \in 0..Size /\ Back(Back(d, 1), Size) = Back(d, Size + 1)
            BY <1>1, <1>2, BackFacts
        <3> QED
            BY <1>1, <1>2, <3>1, BackFacts
    <2> QED
        BY <1>1, <1>4, <2>1, <2>2 DEF SendIndex, Expected
<1>5. CASE ph = AllGather /\ st # 0
    <2>1. st - 1 \in 0..Size /\ st - 1 < st /\ (st - 1) + 1 = st
        BY <1>1, <1>5
    <2>2. BlockValue(s, ph, st, c, st - 1, done) = Final(Back(s, st - 1), c)
        BY <1>1, <1>5, <2>1 DEF BlockValue
    <2>3. Back(s, st - 1) = Back(d, st)
        BY <1>2, <2>1, BackFacts
    <2> QED
        BY <1>1, <1>5, <2>2, <2>3 DEF SendIndex, Expected
<1> QED
    BY <1>3, <1>4, <1>5

-----------------------------------------------------------------------------
(* Memory.                                                                   *)

\* What storing data at a region changes, and what it leaves.
LEMMA StoredValues ==
    ASSUME TypeOKMemory, NEW r \in Ranks, NEW region \in Regions, NEW data,
           DOMAIN data = 0..(region.length - 1), memory' = Stored(r, region, data)
    PROVE  /\ \A q \in Ranks \ {r} : memory'[q] = memory[q]
           /\ region.buffer = "temporary_buffer" => memory'[r].workbuf = memory[r].workbuf
           /\ region.buffer = "workbuf" =>
                memory'[r].temporary_buffer = memory[r].temporary_buffer
           /\ \A e \in Elements(region.buffer) :
                memory'[r][region.buffer][e] =
                   IF region.first <= e /\ e < region.first + region.length
                   THEN data[e - region.first] ELSE memory[r][region.buffer][e]
<1>1. /\ region.buffer \in {"workbuf", "temporary_buffer"}
      /\ region.first \in Nat /\ region.length \in Nat
    BY DEF Regions, BufferLength
<1> DEFINE cells ==
        [e \in Elements(region.buffer) |->
            IF e - region.first \in DOMAIN data THEN data[e - region.first]
                                               ELSE memory[r][region.buffer][e]]
<1>2. memory' = [memory EXCEPT ![r][region.buffer] = cells]
    BY DEF Stored
<1>3. /\ memory \in [Ranks ->
                 [workbuf          : [Elements("workbuf") -> Seq(Contributions)],
                  temporary_buffer : [Elements("temporary_buffer") -> Seq(Contributions)]]]
    BY DEF TypeOKMemory
<1>4. ASSUME NEW e \in Elements(region.buffer)
      PROVE  cells[e] = IF region.first <= e /\ e < region.first + region.length
                        THEN data[e - region.first] ELSE memory[r][region.buffer][e]
    <2>1. e \in Int
        BY <1>1 DEF Elements, BufferLength
    <2>2. e - region.first \in DOMAIN data <=>
             region.first <= e /\ e < region.first + region.length
        BY <1>1, <2>1
    <2> QED
        BY <2>2
<1> HIDE DEF cells
<1>5. \A q \in Ranks \ {r} : memory'[q] = memory[q]
    BY <1>2, <1>3
<1>6. /\ region.buffer = "temporary_buffer" => memory'[r].workbuf = memory[r].workbuf
      /\ region.buffer = "workbuf" =>
            memory'[r].temporary_buffer = memory[r].temporary_buffer
      /\ memory'[r][region.buffer] = cells
    <2>1. CASE region.buffer = "workbuf"
        BY <1>2, <1>3, <2>1
    <2>2. CASE region.buffer = "temporary_buffer"
        BY <1>2, <1>3, <2>2
    <2> QED
        BY <1>1, <2>1, <2>2
<1> QED
    BY <1>4, <1>5, <1>6

\* A read somewhere a write does not touch.
LEMMA OutsideKept ==
    ASSUME TypeOKMemory, NEW r \in Ranks, NEW region \in Regions, NEW data,
           DOMAIN data = 0..(region.length - 1), memory' = Stored(r, region, data),
           NEW other \in Regions, ~Overlap(region, other), NEW x \in 0..(other.length - 1)
    PROVE  memory'[r][other.buffer][other.first + x] = memory[r][other.buffer][other.first + x]
<1>1. /\ region.buffer \in {"workbuf", "temporary_buffer"}
      /\ other.buffer \in {"workbuf", "temporary_buffer"}
      /\ region.first \in Nat /\ region.length \in Nat
      /\ other.first \in Nat /\ other.length \in Nat
      /\ other.first + other.length <= BufferLength[other.buffer]
    BY DEF Regions, BufferLength
<1> DEFINE e == other.first + x
<1>2. /\ e \in other.first..(other.first + other.length - 1) /\ e \in Nat
      /\ e < other.first + other.length
    <2>1. \A a, l \in Nat : \A y \in 0..(l - 1) :
             a + y \in a..(a + l - 1) /\ a + y \in Nat /\ a + y < a + l
        OBVIOUS
    <2> QED
        BY <1>1, <2>1
<1> HIDE DEF e
<1>3. CASE region.buffer # other.buffer
    BY <1>1, <1>3, StoredValues
<1>4. CASE region.buffer = other.buffer
    <2>1. e \in Elements(region.buffer)
        <3>1. BufferLength[other.buffer] \in Nat
            BY <1>1, BlockBounds, RankFacts, CountAssumption DEF BufferLength
        <3>2. e < BufferLength[other.buffer]
            BY <1>1, <1>2, <3>1
        <3> QED
            BY <1>2, <1>4, <3>1, <3>2 DEF Elements
    <2>2. <<other.buffer, e>> \in Cells(other)
        BY <1>2 DEF Cells
    <2>3. <<other.buffer, e>> \notin Cells(region)
        BY <2>2 DEF Overlap
    <2>4. ~(region.first <= e /\ e < region.first + region.length)
        <3>1. ASSUME region.first <= e, e < region.first + region.length
              PROVE  e \in region.first..(region.first + region.length - 1)
            BY <1>1, <1>2, <3>1
        <3> QED
            BY <1>4, <2>3, <3>1 DEF Cells
    <2>5. memory'[r][region.buffer][e] = memory[r][region.buffer][e]
        BY <2>1, <2>4, StoredValues
    <2> QED
        BY <1>4, <2>5 DEF e
<1> QED
    BY <1>3, <1>4

\* The elements of the pieces of a block.
LEMMA PieceElements ==
    ASSUME NEW r \in Ranks, NEW block \in Ranks, NEW j \in Nat, j < Pieces(r, block)
    PROVE  /\ PieceStart(r, j) \in Nat /\ PieceStart(r, j) <= PieceStart(r, j + 1)
           /\ PieceStart(r, j + 1) \in Nat
           /\ \A x \in 0..(BlockCount(block) - 1) :
                 x < PieceStart(r, j + 1) <=> x < PieceStart(r, j) + CutLength(r, block, j)
<1>1. BlockCount(block) \in Nat /\ piece_elements(r) \in Nat \ {0}
    BY BlockBounds, ConfigTypes
<1>2. /\ PieceStart(r, j) \in Nat /\ CutLength(r, block, j) \in Nat \ {0}
      /\ PieceStart(r, j) + CutLength(r, block, j) <= BlockCount(block)
    BY SentPiece
<1>3. PieceStart(r, j + 1) = PieceStart(r, j) + piece_elements(r)
    BY <1>1 DEF PieceStart
<1>4. CutLength(r, block, j) = LeastOf(piece_elements(r), BlockCount(block) - PieceStart(r, j))
    BY DEF CutLength, piece_length, PieceStart
<1> HIDE DEF PieceStart, CutLength
<1> QED
    BY <1>1, <1>2, <1>3, <1>4 DEF LeastOf

\* Every element of a block is in one of its pieces.
LEMMA PieceEnd ==
    ASSUME NEW r \in Ranks, NEW block \in Ranks
    PROVE  BlockCount(block) <= PieceStart(r, Pieces(r, block))
BY BlockBounds, ConfigTypes, PiecesCover DEF PieceStart, Pieces

-----------------------------------------------------------------------------
(* What the buffers hold.                                                    *)

WorkbufOK(r) ==
    pc[r] # "idle" => WorkbufAt(r, phase[r], step[r], calls[r], Landed(r))

Arrived(r) ==
    pc[r] # "idle" /\ phase[r] = ReduceScatter =>
        ArrivedAt(r, RecvBlock(r), Expected(r, phase[r], step[r], calls[r]),
                  Reduced(r), Received(r))

UnderWay(s) ==
    LET d == NextRank(s) IN
    ~qp_error[s] /\ Unfailed(d) /\ pc[d] # "idle" =>
        UnderWayAt(s, send_queue[s], Expected(d, phase[d], step[d], calls[d]))

\* An eager message is a send, another one an RDMA write.
Opcoded(s) ==
    \A k \in 1..Len(send_queue[s]) :
        send_queue[s][k].opcode = "SEND_WITH_IMM" <=> send_queue[s][k].wr_id.mode = EAGER

Recorded(r) ==
    /\ Len(returned[r]) = (IF pc[r] = "idle" THEN calls[r] ELSE calls[r] - 1)
    /\ \A c \in 1..Len(returned[r]) :
          returned[r][c].status = PG_SUCCESS =>
              \A block \in Ranks : \A e \in BlockElements(block) :
                  returned[r][c].recvbuf[e] = Final(block, c)

Holds(r) == WorkbufOK(r) /\ Arrived(r) /\ Opcoded(r) /\ Recorded(r)

DataInv == AlignedInv /\ \A r \in Ranks : Holds(r) /\ UnderWay(r)

LEMMA DataFacts ==
    ASSUME AlignedInv
    PROVE  /\ PlacedInv /\ HeldInv /\ LinkInv /\ TypeInv /\ TypeOK
           /\ TypeOKMemory /\ TypeOKProgram(RequestStates) /\ TypeOKVerbs
           /\ \A r \in Ranks :
                /\ Located(r) /\ Placed(r) /\ Awaiting(r) /\ Aligned(r) /\ FailedStaysOut(r)
                /\ step[r] \in 0..(Size - 1) /\ phase[r] \in {ReduceScatter, AllGather}
                /\ SendBlock(r) \in Ranks /\ RecvBlock(r) \in Ranks
<1>1. PlacedInv /\ HeldInv /\ LinkInv /\ TypeInv /\ TypeOK
    BY DEF AlignedInv, PlacedInv, HeldInv, LinkInv, TypeInv
<1>2. TypeOKMemory /\ TypeOKProgram(RequestStates) /\ TypeOKVerbs
    BY <1>1 DEF TypeOK
<1>3. ASSUME NEW r \in Ranks
      PROVE  /\ step[r] \in 0..(Size - 1) /\ phase[r] \in {ReduceScatter, AllGather}
             /\ SendBlock(r) \in Ranks /\ RecvBlock(r) \in Ranks
    <2>1. step[r] \in 0..(WorldSize - 2) /\ phase[r] \in {ReduceScatter, AllGather}
        BY <1>2 DEF TypeOKProgram
    <2>2. WorldSize - 2 = Size - 1
        BY WorldAssumption DEF Size
    <2> QED
        BY <1>1, <2>1, <2>2, CurrentBlocks
<1> QED
    BY <1>1, <1>2, <1>3 DEF AlignedInv, PlacedInv, LinkInv

\* Pieces of a step are waited for after they arrived, and arrive after their
\* receives were posted.
LEMMA LandedFacts ==
    ASSUME PlacedInv, NEW r \in Ranks, Unfailed(r)
    PROVE  /\ Reduced(r) \in Nat /\ Received(r) \in Nat /\ RecvsPosted(r) \in Nat
           /\ Reduced(r) <= Received(r) /\ Received(r) <= RecvsPosted(r)
           /\ RecvsPosted(r) <= RecvPieces(r) /\ RecvPieces(r) \in Nat
           /\ RecvPieces(r) = Pieces(r, RecvBlock(r))
<1>1. TypeInv /\ Located(r) /\ Awaiting(r)
    BY DEF PlacedInv, HeldInv, LinkInv
<1>2. /\ Len(recv_requests[r]) <= RecvsPosted(r)
      /\ Len(recv_queue[r]) <= Len(recv_requests[r])
    BY <1>1 DEF Awaiting, WaitedFor
<1>3. /\ Len(recv_requests[r]) \in Nat /\ Len(recv_queue[r]) \in Nat
      /\ RecvsPosted(r) \in Nat /\ RecvsPosted(r) <= RecvPieces(r) /\ RecvPieces(r) \in Nat
      /\ RecvPieces(r) = Pieces(r, RecvBlock(r))
    BY <1>1, QueueTypes, CountFacts
<1>4. \A p, l, q \in Nat : l <= p /\ q <= l =>
         p - l \in Nat /\ p - q \in Nat /\ p - l <= p - q /\ p - q <= p
    OBVIOUS
<1> QED
    BY <1>2, <1>3, <1>4, Zenon DEF Reduced, Received

-----------------------------------------------------------------------------
(* Steps of the ring, as what they make of the blocks of one rank.           *)

LEMMA PieceMonotone ==
    ASSUME NEW r \in Ranks, NEW j \in Nat, NEW k \in Nat, j <= k
    PROVE  /\ PieceStart(r, j) \in Nat /\ PieceStart(r, k) \in Nat
           /\ PieceStart(r, j) <= PieceStart(r, k) /\ PieceStart(r, 0) = 0
<1>1. PICK p \in Nat : piece_elements(r) = p
    BY ConfigTypes
<1>2. PICK n \in Nat : k = j + n
    <2>1. k - j \in Nat /\ k = j + (k - j)
        OBVIOUS
    <2> QED
        BY <2>1
<1>3. (j + n) * p = j * p + n * p /\ j * p \in Nat /\ n * p \in Nat /\ 0 * p = 0
    BY <1>1
<1>4. j * p <= j * p + n * p
    BY <1>3
<1> QED
    BY <1>1, <1>2, <1>3, <1>4 DEF PieceStart

LEMMA ElementTypes ==
    ASSUME NEW block \in Ranks, NEW e \in BlockElements(block)
    PROVE  /\ e \in Nat /\ e \in Elements("workbuf") /\ BlockOffset(block) \in Nat
           /\ BlockCount(block) \in Nat
           /\ BlockOffset(block) <= e /\ e < BlockOffset(block) + BlockCount(block)
<1>1. e \in Nat
    BY CountAssumption DEF BlockElements, Elements, BufferLength
<1> QED
    BY <1>1, BlockBounds DEF BlockElements

\* At the beginning of a step nothing of it has landed.
LEMMA NothingLanded ==
    ASSUME NEW r \in Ranks, NEW i \in 0..Size, NEW e \in BlockElements(Back(r, i))
    PROVE  (e < BlockOffset(Back(r, i)) + PieceStart(r, 0)) = FALSE
<1>1. Back(r, i) \in Ranks
    BY BackFacts, WorldAssumption DEF Size
<1>2. PieceStart(r, 0) = 0
    BY PieceMonotone
<1> QED
    BY <1>1, <1>2, ElementTypes

\* A step whose block has landed whole.
Whole(r, ph, st, c) ==
    \A i \in 0..Size : \A e \in BlockElements(Back(r, i)) :
        memory[r].workbuf[e] = BlockValue(r, ph, st, c, i, TRUE)

LEMMA StepEnds ==
    ASSUME NEW r \in Ranks, NEW ph \in {ReduceScatter, AllGather}, NEW st \in 0..(Size - 1),
           NEW c, NEW n \in Nat, n = Pieces(r, Back(r, RecvIndex(ph, st))),
           WorkbufAt(r, ph, st, c, n)
    PROVE  Whole(r, ph, st, c)
<1>1. ASSUME NEW i \in 0..Size, NEW e \in BlockElements(Back(r, i))
      PROVE  memory[r].workbuf[e] = BlockValue(r, ph, st, c, i, TRUE)
    <2> DEFINE done == e < BlockOffset(Back(r, i)) + PieceStart(r, n)
    <2>1. memory[r].workbuf[e] = BlockValue(r, ph, st, c, i, done)
        BY DEF WorkbufAt
    <2>2. Back(r, i) \in Ranks
        BY BackFacts, WorldAssumption DEF Size
    <2>3. CASE i = RecvIndex(ph, st)
        <3>1. /\ BlockCount(Back(r, i)) <= PieceStart(r, n) /\ PieceStart(r, n) \in Nat
            BY <2>2, <2>3, PieceEnd, PieceMonotone
        <3>2. done = TRUE
            BY <2>2, <3>1, ElementTypes
        <3> QED
            BY <2>1, <3>2
    <2>4. CASE i # RecvIndex(ph, st)
        <3>1. BlockValue(r, ph, st, c, i, TRUE) = BlockValue(r, ph, st, c, i, FALSE)
            BY <2>4, ValueSteps
        <3>2. done = TRUE \/ done = FALSE
            OBVIOUS
        <3> HIDE DEF done
        <3> QED
            BY <2>1, <3>1, <3>2
    <2> QED
        BY <2>3, <2>4
<1> QED
    BY <1>1 DEF Whole

\* The elements a piece of a block occupies in workbuf.
InPiece(r, block, m, e) ==
    /\ BlockOffset(block) + PieceStart(r, m) <= e
    /\ e < BlockOffset(block) + PieceStart(r, m) + CutLength(r, block, m)

LEMMA InPieceFacts ==
    ASSUME NEW r \in Ranks, NEW block \in Ranks, NEW m \in Nat, m < Pieces(r, block)
    PROVE  /\ \A e \in BlockElements(block) :
                /\ InPiece(r, block, m, e) =>
                      /\ ~(e < BlockOffset(block) + PieceStart(r, m))
                      /\ e < BlockOffset(block) + PieceStart(r, m + 1)
                /\ ~InPiece(r, block, m, e) =>
                      (e < BlockOffset(block) + PieceStart(r, m + 1)) =
                         (e < BlockOffset(block) + PieceStart(r, m))
           /\ \A other \in Ranks \ {block} : \A e \in BlockElements(other) :
                 ~InPiece(r, block, m, e)
           /\ \A e \in Nat : InPiece(r, block, m, e) => e \in BlockElements(block)
<1> DEFINE o == BlockOffset(block)
           n == BlockCount(block)
           p == PieceStart(r, m)
           q == PieceStart(r, m + 1)
           l == CutLength(r, block, m)
<1>1. /\ o \in Nat /\ n \in Nat /\ p \in Nat /\ q \in Nat /\ p <= q /\ l \in Nat
      /\ p + l <= n /\ o + n <= Count
      /\ \A x \in 0..(n - 1) : x < q <=> x < p + l
    BY BlockBounds, PieceElements, SentPiece
<1>2. \A e \in Nat : InPiece(r, block, m, e) <=> o + p <= e /\ e < o + p + l
    BY DEF InPiece
<1>3. ASSUME NEW e \in BlockElements(block)
      PROVE  /\ InPiece(r, block, m, e) => ~(e < o + p) /\ e < o + q
             /\ ~InPiece(r, block, m, e) => (e < o + q) = (e < o + p)
    <2>1. e \in Nat /\ o <= e /\ e < o + n
        BY ElementTypes
    <2>2. PICK x \in 0..(n - 1) : e = o + x
        <3>1. e - o \in 0..(n - 1) /\ e = o + (e - o)
            BY <1>1, <2>1
        <3> QED
            BY <3>1
    <2>3. x < q <=> x < p + l
        BY <1>1, <2>2
    <2> HIDE DEF o, n, p, q, l
    <2>4. InPiece(r, block, m, e) <=> p <= x /\ x < p + l
        BY <1>1, <1>2, <2>1, <2>2
    <2>5. (e < o + q <=> x < q) /\ (e < o + p <=> x < p)
        BY <1>1, <2>2
    <2>6. x < p => x < q
        BY <1>1, <2>2
    <2>7. ~(p <= x) <=> x < p
        BY <1>1, <2>2
    <2> QED
        BY <2>3, <2>4, <2>5, <2>6, <2>7
<1>4. ASSUME NEW e \in Nat, InPiece(r, block, m, e)
      PROVE  e \in BlockElements(block)
    <2>1. o <= e /\ e < o + n /\ e < Count /\ Count \in Nat
        BY <1>1, <1>2, <1>4, CountAssumption
    <2> QED
        BY <2>1 DEF BlockElements, Elements, BufferLength
<1>5. ASSUME NEW other \in Ranks \ {block}, NEW e \in BlockElements(other)
      PROVE  ~InPiece(r, block, m, e)
    <2>1. SUFFICES ASSUME InPiece(r, block, m, e) PROVE FALSE
        OBVIOUS
    <2>2. e \in Nat /\ BlockOffset(other) <= e /\ e < BlockOffset(other) + BlockCount(other)
          /\ BlockOffset(other) \in Nat /\ BlockCount(other) \in Nat
        BY ElementTypes
    <2>3. o <= e /\ e < o + n
        BY <1>4, <2>1, <2>2, ElementTypes
    <2> DEFINE one == Region("workbuf", o, n)
               two == Region("workbuf", BlockOffset(other), BlockCount(other))
    <2>4. ~Overlap(one, two)
        <3>1. WithinBlock(one, block) /\ WithinBlock(two, other)
            BY <1>1, <2>2 DEF WithinBlock, Region
        <3> QED
            BY <1>1, <2>2, <3>1, WithinApart DEF Region
    <2>5. <<"workbuf", e>> \in Cells(one) /\ <<"workbuf", e>> \in Cells(two)
        <3>1. e \in o..(o + n - 1)
              /\ e \in BlockOffset(other)..(BlockOffset(other) + BlockCount(other) - 1)
            BY <1>1, <2>2, <2>3
        <3> QED
            BY <3>1 DEF Cells, Region
    <2> QED
        BY <2>4, <2>5 DEF Overlap
<1> QED
    BY <1>3, <1>4, <1>5

\* A piece that has landed, all else being left as it was.
LEMMA PieceLands ==
    ASSUME NEW r \in Ranks, NEW ph \in {ReduceScatter, AllGather}, NEW st \in 0..(Size - 1),
           NEW c, NEW m \in Nat, NEW block, block = Back(r, RecvIndex(ph, st)),
           m < Pieces(r, block), WorkbufAt(r, ph, st, c, m),
           \A e \in Elements("workbuf") :
              memory'[r].workbuf[e] =
                 IF InPiece(r, block, m, e)
                 THEN BlockValue(r, ph, st, c, RecvIndex(ph, st), TRUE)
                 ELSE memory[r].workbuf[e]
    PROVE  WorkbufAt(r, ph, st, c, m + 1)'
<1>1. block \in Ranks /\ RecvIndex(ph, st) \in 0..Size
    <2>1. Size + 1 = WorldSize /\ Size \in Nat
        BY WorldAssumption DEF Size
    <2>2. st \in 0..(WorldSize - 2)
        BY <2>1
    <2>3. RecvIndex(ph, st) \in 0..Size
        BY <2>2, BlockIndices
    <2> QED
        BY <2>1, <2>3, BackFacts
<1>2. ASSUME NEW i \in 0..Size, NEW e \in BlockElements(Back(r, i))
      PROVE  memory'[r].workbuf[e] =
               BlockValue(r, ph, st, c, i, e < BlockOffset(Back(r, i)) + PieceStart(r, m + 1))
    <2> DEFINE done == e < BlockOffset(Back(r, i)) + PieceStart(r, m)
               next == e < BlockOffset(Back(r, i)) + PieceStart(r, m + 1)
    <2>1. memory[r].workbuf[e] = BlockValue(r, ph, st, c, i, done)
        BY DEF WorkbufAt
    <2>2. Back(r, i) \in Ranks
        BY BackFacts, WorldAssumption DEF Size
    <2>3. e \in Elements("workbuf") /\ e \in Nat
        BY <2>2, ElementTypes
    <2>4. CASE InPiece(r, block, m, e)
        <3>1. Back(r, i) = block
            BY <1>1, <2>2, <2>4, InPieceFacts
        <3>2. i = RecvIndex(ph, st)
            BY <1>1, <3>1, BackFacts
        <3>3. next = TRUE
            BY <1>1, <2>4, <3>1, InPieceFacts
        <3> QED
            BY <2>3, <2>4, <3>2, <3>3
    <2>5. CASE ~InPiece(r, block, m, e) /\ i = RecvIndex(ph, st)
        <3>1. next = done
            BY <1>1, <2>5, InPieceFacts
        <3> HIDE DEF done, next
        <3>2. memory'[r].workbuf[e] = memory[r].workbuf[e]
            BY <2>3, <2>5
        <3>3. memory'[r].workbuf[e] = BlockValue(r, ph, st, c, i, next)
            BY <2>1, <3>1, <3>2
        <3> QED
            BY <3>3 DEF next
    <2>6. CASE ~InPiece(r, block, m, e) /\ i # RecvIndex(ph, st)
        <3>1. BlockValue(r, ph, st, c, i, TRUE) = BlockValue(r, ph, st, c, i, FALSE)
            BY <2>6, ValueSteps
        <3>2. (done = TRUE \/ done = FALSE) /\ (next = TRUE \/ next = FALSE)
            OBVIOUS
        <3> HIDE DEF done, next
        <3>3. memory'[r].workbuf[e] = BlockValue(r, ph, st, c, i, next)
            BY <2>1, <2>3, <2>6, <3>1, <3>2
        <3> QED
            BY <3>3 DEF next
    <2> QED
        BY <2>4, <2>5, <2>6
<1> QED
    BY <1>2 DEF WorkbufAt

-----------------------------------------------------------------------------
(* What a step of a rank's program does to its buffers and its position.     *)

\* Posting, polling and moving on inside a batch.
Quiet(r) ==
    /\ memory' = memory /\ pc[r] # "idle" /\ pc'[r] # "idle"
    /\ phase'[r] = phase[r] /\ step'[r] = step[r]
    /\ calls'[r] = calls[r] /\ returned'[r] = returned[r]
    /\ Received(r)' = Received(r)
    /\ phase[r] = ReduceScatter => Reduced(r)' = Reduced(r)

\* The oldest piece of the batch is reduced.
Reduces(r) ==
    LET posted == Head(recv_requests[r]) IN
    /\ AboutToReduce(r)
    /\ memory' = Stored(r, ReduceTarget(r, posted),
                        reduce_in_place(Contents(r, ReduceTarget(r, posted)),
                                        Contents(r, ReduceSource(posted))))
    /\ pc[r] # "idle" /\ pc'[r] # "idle" /\ phase'[r] = phase[r] /\ step'[r] = step[r]
    /\ calls'[r] = calls[r] /\ returned'[r] = returned[r]
    /\ Received(r)' = Received(r) /\ Reduced(r)' = Reduced(r) + 1

Empty(r) == recv_requests[r] = <<>> /\ send_requests[r] = <<>>

Begins(r) ==
    /\ pc[r] = "idle" /\ pc'[r] # "idle" /\ Empty(r)
    /\ phase'[r] = ReduceScatter /\ step'[r] = 0
    /\ calls'[r] = calls[r] + 1 /\ returned'[r] = returned[r]
    /\ Received(r)' = 0 /\ Reduced(r)' = 0
    /\ memory' = [memory EXCEPT ![r].workbuf =
                    [e \in Elements("workbuf") |-> <<(<<r, calls[r] + 1>>)>>]]

Completes(r) == Empty(r) /\ pc[r] # "idle" /\ RecvsPosted(r) = RecvPieces(r)

GoesOn(r) ==
    /\ Completes(r) /\ memory' = memory /\ pc'[r] # "idle"
    /\ calls'[r] = calls[r] /\ returned'[r] = returned[r]
    /\ Received(r)' = 0 /\ Reduced(r)' = 0
    /\ \/ step[r] + 1 <= Size - 1 /\ phase'[r] = phase[r] /\ step'[r] = step[r] + 1
       \/ /\ step[r] + 1 >= Size /\ phase[r] = ReduceScatter
          /\ phase'[r] = AllGather /\ step'[r] = 0

Succeeds(r) ==
    /\ Completes(r) /\ memory' = memory /\ pc'[r] = "idle"
    /\ phase[r] = AllGather /\ step[r] + 1 >= Size /\ calls'[r] = calls[r]
    /\ returned'[r] = Append(returned[r], [status  |-> PG_SUCCESS,
                                           recvbuf |-> memory[r].workbuf])

Failing(r) ==
    /\ memory' = memory /\ pc'[r] = "idle"
    /\ calls'[r] = (IF pc[r] = "idle" THEN calls[r] + 1 ELSE calls[r])
    /\ \E status \in Statuses \ {PG_SUCCESS} :
          returned'[r] = Append(returned[r], [status  |-> status,
                                              recvbuf |-> memory[r].workbuf])

Course(r) ==
    \/ Quiet(r) \/ Reduces(r) \/ Begins(r) \/ GoesOn(r) \/ Succeeds(r) \/ Failing(r)

LEMMA ReceivedKept ==
    ASSUME NEW r, RecvsPosted(r)' = RecvsPosted(r), recv_queue'[r] = recv_queue[r],
           recv_requests'[r] = recv_requests[r]
    PROVE  Received(r)' = Received(r) /\ Reduced(r)' = Reduced(r)
BY DEF Received, Reduced

LEMMA FailingReturn ==
    ASSUME TypeInv, NEW r \in Ranks, NEW status \in Statuses \ {PG_SUCCESS},
           ReturnError(r, status), pc[r] # "idle"
    PROVE  Failing(r)
<1>1. /\ memory' = memory /\ pc'[r] = "idle" /\ calls'[r] = calls[r]
      /\ returned'[r] = Append(returned[r], [status  |-> status,
                                             recvbuf |-> memory[r].workbuf])
    BY DEF ReturnError, Return, Goto, TypeInv, TypeOK, TypeOKProgram
<1> QED
    BY <1>1 DEF Failing

\* A failed call leaves the status of a failure.
LEMMA NotFailing ==
    ASSUME NEW r, Unfailed(r), returned'[r] = returned[r]
    PROVE  ~GivesUp(r)
BY DEF GivesUp, Unfailed, LastStatus

LEMMA PostRecvCourse ==
    ASSUME AlignedInv, ContinueAfterError = FALSE, NEW r \in Ranks, PostRecv(r)
    PROVE  Course(r)
<1>1. TypeInv /\ Located(r) /\ Unfailed(r) /\ pc[r] = "postRecv"
    BY DataFacts, RunnerUnfailed DEF RunRank, PostRecv, RecvToPost
<1>2. ASSUME post_receive_throws(r), ReturnError(r, PG_ERR_TRANSPORT)
      PROVE  Course(r)
    BY <1>1, <1>2, FailingReturn DEF Course, Statuses, PG_ERR_TRANSPORT, PG_SUCCESS
<1>3. ASSUME NEW state, RecvPosted(r, state)
      PROVE  Course(r)
    <2>1. /\ memory' = memory /\ UNCHANGED <<pc, phase, step, calls, returned>>
        BY <1>3 DEF RecvPosted
    <2>2. Receives(r)
        BY <1>1, <2>1, PostRecvEffect, NotFailing
    <2>3. PICK recv \in RecvWrs, posted \in PostedRequests(RequestStates) :
             /\ recv_requests'[r] = Append(recv_requests[r], posted)
             /\ recv_queue' = [recv_queue EXCEPT ![r] = Append(@, recv)]
             /\ RecvsPosted(r)' = RecvsPosted(r) + 1
        <3>1. PICK request \in RequestStates, recv \in RecvWrs :
                 /\ recv_requests'[r] =
                      Append(recv_requests[r],
                             PostedRequest(request, PieceStart(r, RecvsPosted(r)),
                                           CutLength(r, RecvBlock(r), RecvsPosted(r))))
                 /\ recv_queue' = [recv_queue EXCEPT ![r] = Append(@, recv)]
                 /\ RecvsPosted(r)' = RecvsPosted(r) + 1 /\ RecvsPosted(r) < RecvPieces(r)
            BY <2>2 DEF Receives
        <3>2. /\ PieceStart(r, RecvsPosted(r)) \in Nat
              /\ CutLength(r, RecvBlock(r), RecvsPosted(r)) \in Nat
            <4>1. RecvsPosted(r) \in Nat /\ RecvsPosted(r) < Pieces(r, RecvBlock(r))
                BY <1>1, <3>1, CountFacts
            <4> QED
                BY <4>1, DataFacts, SentPiece
        <3>3. PostedRequest(request, PieceStart(r, RecvsPosted(r)),
                            CutLength(r, RecvBlock(r), RecvsPosted(r)))
                \in PostedRequests(RequestStates)
            BY <3>2 DEF PostedRequest, PostedRequests
        <3> QED
            BY <3>1, <3>3
    <2>4. recv_queue'[r] = Append(recv_queue[r], recv)
        BY <1>1, <2>3 DEF TypeInv, TypeOK, TypeOKVerbs
    <2>5. /\ recv_queue[r] \in Seq(RecvWrs) /\ RecvsPosted(r) \in Nat
          /\ recv_requests[r] \in Seq(PostedRequests(RequestStates))
        BY <1>1, QueueTypes, CountFacts
    <2>6. /\ Len(recv_queue'[r]) = Len(recv_queue[r]) + 1 /\ Len(recv_queue[r]) \in Nat
          /\ Len(recv_requests'[r]) = Len(recv_requests[r]) + 1 /\ Len(recv_requests[r]) \in Nat
        BY <2>3, <2>4, <2>5
    <2>7. \A p, l \in Nat : (p + 1) - (l + 1) = p - l
        OBVIOUS
    <2>8. Received(r)' = Received(r) /\ Reduced(r)' = Reduced(r)
        BY <2>3, <2>5, <2>6, <2>7, Zenon DEF Received, Reduced
    <2> QED
        BY <1>1, <2>1, <2>8 DEF Course, Quiet
<1> QED
    BY <1>2, <1>3 DEF PostRecv

LEMMA PostSendCourse ==
    ASSUME AlignedInv, ContinueAfterError = FALSE, NEW r \in Ranks, PostSend(r)
    PROVE  Course(r)
<1>1. TypeInv /\ Located(r) /\ Unfailed(r) /\ pc[r] = "postSend"
    BY DataFacts, RunnerUnfailed DEF RunRank, PostSend, SendToPost
<1>2. ASSUME ReturnError(r, PG_ERR_TRANSPORT)
      PROVE  Course(r)
    BY <1>1, <1>2, FailingReturn DEF Course, Statuses, PG_ERR_TRANSPORT, PG_SUCCESS
<1>3. ASSUME NEW state, SendPosted(r, state)
      PROVE  Course(r)
    <2>1. /\ memory' = memory /\ UNCHANGED <<pc, phase, step, calls, returned>>
        BY <1>3 DEF SendPosted
    <2>2. Sends(r)
        BY <1>1, <2>1, PostSendEffect, NotFailing
    <2>3. Received(r)' = Received(r) /\ Reduced(r)' = Reduced(r)
        BY <2>2, ReceivedKept DEF Sends
    <2> QED
        BY <1>1, <2>1, <2>3 DEF Course, Quiet
<1> QED
    BY <1>2, <1>3 DEF PostSend

LEMMA AdvanceCourse ==
    ASSUME AlignedInv, ContinueAfterError = FALSE, NEW r \in Ranks, UNCHANGED verbs_vars,
           NextStep(r) \/ BeginAllGather(r) \/ ReturnSuccess(r), Unfailed(r)
    PROVE  Course(r)
<1>1. /\ TypeInv /\ HeldInv /\ TypeOKProgram(RequestStates) /\ Located(r)
      /\ step[r] \in 0..(Size - 1) /\ WorldSize - 1 = Size /\ Size \in Nat
    BY DataFacts, WorldAssumption DEF Size
<1>2. pc[r] = "batch" /\ ~BatchesLeft(r)
    BY DEF NextStep, BeginAllGather, ReturnSuccess
<1>3. Advances(r)
    BY <1>1, AdvanceEffect
<1>4. Completes(r)
    BY <1>1, <1>2, StepComplete DEF Completes, Empty
<1>5. Received(r)' = 0 /\ Reduced(r)' = 0
    <2>1. recv_queue[r] = <<>>
        BY <1>1, <1>4, NothingHeld DEF Completes, Empty
    <2>2. Len(recv_queue'[r]) = 0 /\ Len(recv_requests'[r]) = 0 /\ RecvsPosted(r)' = 0
        BY <1>3, <2>1 DEF Advances, QueuesKept
    <2> QED
        BY <2>2 DEF Received, Reduced
<1>6. CASE NextStep(r)
    <2>1. /\ memory' = memory /\ UNCHANGED <<pc, phase, calls, returned>>
          /\ step'[r] = step[r] + 1 /\ step[r] + 1 < WorldSize - 1
        BY <1>1, <1>6 DEF NextStep, TypeOKProgram
    <2>2. step[r] + 1 <= Size - 1
        BY <1>1, <2>1
    <2> QED
        BY <1>2, <1>4, <1>5, <2>1, <2>2 DEF Course, GoesOn
<1>7. CASE BeginAllGather(r)
    <2>1. /\ memory' = memory /\ UNCHANGED <<pc, calls, returned>>
          /\ phase[r] = ReduceScatter /\ phase'[r] = AllGather /\ step'[r] = 0
          /\ step[r] + 1 >= Size
        BY <1>1, <1>7 DEF BeginAllGather, TypeOKProgram
    <2> QED
        BY <1>2, <1>4, <1>5, <2>1 DEF Course, GoesOn
<1>8. CASE ReturnSuccess(r)
    <2>1. /\ memory' = memory /\ calls' = calls /\ pc'[r] = "idle"
          /\ phase[r] = AllGather /\ step[r] + 1 >= Size
          /\ returned'[r] = Append(returned[r], [status  |-> PG_SUCCESS,
                                                 recvbuf |-> memory[r].workbuf])
        BY <1>1, <1>8 DEF ReturnSuccess, Return, Goto, TypeOKProgram
    <2> QED
        BY <1>4, <2>1 DEF Course, Succeeds
<1> QED
    BY <1>6, <1>7, <1>8

LEMMA BeginCourse ==
    ASSUME AlignedInv, ContinueAfterError = FALSE, NEW r \in Ranks, UNCHANGED verbs_vars,
           BeginCall(r), Unfailed(r)
    PROVE  Course(r)
<1>1. TypeInv /\ HeldInv /\ TypeOKProgram(RequestStates) /\ Located(r)
    BY DataFacts
<1>2. /\ pc[r] = "idle" /\ pc'[r] # "idle" /\ phase' = phase /\ step' = step
      /\ calls'[r] = calls[r] + 1 /\ returned' = returned
      /\ memory' = [memory EXCEPT ![r].workbuf =
                      [e \in Elements("workbuf") |-> <<(<<r, calls[r] + 1>>)>>]]
    BY <1>1 DEF BeginCall, MayCall, Goto, TypeOKProgram
<1>3. phase[r] = ReduceScatter /\ step[r] = 0 /\ batch[r] = 0
    BY <1>1, <1>2 DEF Located
<1>4. Empty(r)
    BY <1>1, <1>2 DEF Empty, TypeInv, RecvsInBlock, HeldInv, HeldAt, InBatch
<1>5. recv_queue[r] = <<>>
    BY <1>1, <1>4, NothingHeld DEF Empty
<1>6. RecvsPosted(r) = 0
    <2>1. BeginPiece(r) = 0 /\ RecvPieces(r) \in Nat
        BY <1>1, <1>3, ConfigTypes, CountFacts DEF BeginPiece
    <2>2. RecvsPosted(r) = LeastOf(RecvPieces(r), BeginPiece(r))
        BY <1>2 DEF RecvsPosted
    <2> QED
        BY <2>1, <2>2, LeastFacts
<1>7. Received(r)' = 0 /\ Reduced(r)' = 0
    <2>1. Stays(r)
        BY <1>1, BeginCallEffect
    <2>2. Len(recv_queue'[r]) = 0 /\ Len(recv_requests'[r]) = 0 /\ RecvsPosted(r)' = 0
        BY <1>4, <1>5, <1>6, <2>1 DEF Stays, QueuesKept, Empty
    <2> QED
        BY <2>2 DEF Received, Reduced
<1> QED
    BY <1>2, <1>3, <1>4, <1>7 DEF Course, Begins

LEMMA ProceedCourse ==
    ASSUME AlignedInv, ContinueAfterError = FALSE, NEW r \in Ranks, Proceed(r),
           UNCHANGED verbs_vars
    PROVE  Course(r)
<1>1. TypeInv /\ Located(r) /\ Unfailed(r) /\ TypeOKProgram(RequestStates)
    BY DataFacts, RunnerUnfailed DEF RunRank
<1>2. CASE RefuseCall(r)
    <2>1. /\ memory' = memory /\ pc[r] = "idle" /\ calls'[r] = calls[r] + 1
          /\ \E status \in Statuses \ {PG_SUCCESS} : Return(r, status)
        BY <1>1, <1>2 DEF RefuseCall, MayCall, Statuses, PG_SUCCESS, PG_ERR_INVALID_ARGUMENT,
                          PG_ERR_UNSUPPORTED_DATATYPE, TypeOKProgram
    <2>2. PICK status \in Statuses \ {PG_SUCCESS} : Return(r, status)
        BY <2>1
    <2>3. /\ pc'[r] = "idle"
          /\ returned'[r] = Append(returned[r], [status  |-> status,
                                                 recvbuf |-> memory[r].workbuf])
        BY <1>1, <2>2 DEF Return, Goto, TypeOKProgram
    <2> QED
        BY <2>1, <2>3 DEF Course, Failing
<1>3. CASE TagOutOfRange(r)
    <2>1. pc[r] # "idle"
        BY <1>3 DEF TagOutOfRange, RecvToPost, SendToPost
    <2> QED
        BY <1>1, <1>3, <2>1, FailingReturn
           DEF TagOutOfRange, Course, Statuses, PG_ERR_TAG_RANGE, PG_SUCCESS
<1>4. CASE \/ BeginBatch(r) \/ EndPostRecv(r) \/ EndPostSend(r)
           \/ EndWaitRecv(r) \/ EndBatch(r)
    <2>1. /\ memory' = memory /\ pc[r] # "idle" /\ pc'[r] # "idle"
          /\ UNCHANGED <<phase, step, calls, returned>>
        BY <1>1, <1>4 DEF BeginBatch, EndPostRecv, EndPostSend, EndWaitRecv, EndBatch, Goto,
                          TypeOKProgram
    <2>2. Received(r)' = Received(r) /\ Reduced(r)' = Reduced(r)
        BY <1>1, <1>4, BoundaryEffect, ReceivedKept DEF Stays, QueuesKept
    <2> QED
        BY <2>1, <2>2 DEF Course, Quiet
<1> QED
    BY <1>1, <1>2, <1>3, <1>4, AdvanceCourse, BeginCourse DEF Proceed

LEMMA WaitCourse ==
    ASSUME AlignedInv, ContinueAfterError = FALSE, NEW r \in Ranks, Wait(r)
    PROVE  Course(r)
<1>1. /\ TypeInv /\ Located(r) /\ Unfailed(r) /\ TypeOKProgram(RequestStates)
      /\ phase[r] \in {ReduceScatter, AllGather}
    BY DataFacts, RunnerUnfailed DEF RunRank
<1>2. PICK request \in Awaited(r) :
         /\ consume_request(r, request)
         /\ \/ /\ request \notin errored[r]
               /\ RecvWaited(r) \/ OperationUnsupported(r) \/ SendWaited(r)
            \/ ReturnError(r, PG_ERR_TRANSPORT)
    BY DEF Wait
<1>3. /\ recv_queue' = recv_queue /\ request \in completed[r] /\ pc[r] # "idle"
    BY <1>2 DEF consume_request, Awaited
<1>4. ASSUME NEW status \in Statuses \ {PG_SUCCESS}, ReturnError(r, status)
      PROVE  Course(r)
    BY <1>1, <1>3, <1>4, FailingReturn DEF Course
<1>5. ASSUME UNCHANGED <<pc, phase, step, batch, piece, calls, returned>>
      PROVE  RecvsPosted(r)' = RecvsPosted(r)
    BY <1>5 DEF RecvsPosted, BeginPiece, EndPiece, RecvPieces, RecvBlock
<1>6. CASE RecvWaited(r) /\ request \notin errored[r]
    <2>1. /\ pc[r] = "waitRecv" /\ recv_requests[r] # <<>>
          /\ recv_requests'[r] = Tail(recv_requests[r])
          /\ UNCHANGED <<pc, phase, step, batch, piece, calls, returned>>
        BY <1>1, <1>6 DEF RecvWaited, TypeOKProgram
    <2>2. Received(r)' = Received(r)
        BY <1>3, <1>5, <2>1 DEF Received
    <2>3. CASE phase[r] = AllGather
        <3>0. ReduceScatter # AllGather
            BY DEF ReduceScatter, AllGather
        <3>1. memory' = memory
            BY <1>6, <2>3, <3>0 DEF RecvWaited
        <3> QED
            BY <1>3, <2>1, <2>2, <2>3, <3>0, <3>1 DEF Course, Quiet
    <2>4. CASE phase[r] = ReduceScatter
        <3>1. AboutToReduce(r)
            <4>1. Awaited(r) = {Head(recv_requests[r]).request}
                BY <2>1 DEF Awaited
            <4> QED
                BY <1>2, <1>3, <1>6, <2>1, <2>4, <4>1 DEF AboutToReduce
        <3>2. Reduced(r)' = Reduced(r) + 1
            <4>1. recv_requests[r] \in Seq(PostedRequests(RequestStates)) /\ RecvsPosted(r) \in Nat
                BY <1>1, QueueTypes, CountFacts
            <4>2. PICK n \in Nat : Len(recv_requests[r]) = n + 1 /\ Len(recv_requests'[r]) = n
                <5>1. Len(Tail(recv_requests[r])) \in Nat
                      /\ Len(recv_requests[r]) = Len(Tail(recv_requests[r])) + 1
                    BY <2>1, <4>1
                <5> QED
                    BY <2>1, <5>1
            <4>3. RecvsPosted(r)' = RecvsPosted(r)
                BY <1>5, <2>1
            <4>4. \A p, l \in Nat : p - l = (p - (l + 1)) + 1
                OBVIOUS
            <4> QED
                BY <4>1, <4>2, <4>3, <4>4, Zenon DEF Reduced
        <3>3. memory' = Stored(r, ReduceTarget(r, Head(recv_requests[r])),
                         reduce_in_place(Contents(r, ReduceTarget(r, Head(recv_requests[r]))),
                                         Contents(r, ReduceSource(Head(recv_requests[r])))))
            BY <1>6, <2>4 DEF RecvWaited
        <3> QED
            BY <1>3, <2>1, <2>2, <3>1, <3>2, <3>3 DEF Course, Reduces
    <2> QED
        BY <1>1, <2>3, <2>4
<1>7. CASE OperationUnsupported(r)
    BY <1>4, <1>7 DEF OperationUnsupported, Statuses, PG_SUCCESS, PG_ERR_UNSUPPORTED_OPERATION
<1>8. CASE SendWaited(r)
    <2>1. /\ recv_requests' = recv_requests /\ memory' = memory
          /\ UNCHANGED <<pc, phase, step, batch, piece, calls, returned>>
        BY <1>8 DEF SendWaited
    <2>2. Received(r)' = Received(r) /\ Reduced(r)' = Reduced(r)
        BY <1>3, <1>5, <2>1, ReceivedKept
    <2> QED
        BY <1>3, <2>1, <2>2 DEF Course, Quiet
<1>9. CASE ReturnError(r, PG_ERR_TRANSPORT)
    BY <1>4, <1>9 DEF Statuses, PG_SUCCESS, PG_ERR_TRANSPORT
<1> QED
    BY <1>2, <1>6, <1>7, <1>8, <1>9

LEMMA RunCourse ==
    ASSUME AlignedInv, ContinueAfterError = FALSE, NEW r \in Ranks, RunRank(r)
    PROVE  Course(r)
<1>1. TypeInv
    BY DataFacts
<1>2. CASE Poll(r)
    <2>1. /\ UNCHANGED <<pc, phase, step, batch, piece, calls, returned, recv_requests>>
          /\ memory' = memory /\ recv_queue' = recv_queue /\ pc[r] # "idle"
        BY <1>2 DEF Poll, handle_completion, program_vars, Awaited
    <2>2. RecvsPosted(r)' = RecvsPosted(r)
        BY <2>1 DEF RecvsPosted, BeginPiece, EndPiece, RecvPieces, RecvBlock
    <2> QED
        BY <2>1, <2>2, ReceivedKept DEF Course, Quiet
<1>3. CASE PollFails(r)
    <2>1. pc[r] # "idle"
        BY <1>3 DEF PollFails, Awaited
    <2> QED
        BY <1>1, <1>3, <2>1, FailingReturn
           DEF PollFails, Course, Statuses, PG_ERR_TRANSPORT, PG_SUCCESS
<1> QED
    BY <1>2, <1>3, ProceedCourse, PostRecvCourse, PostSendCourse, WaitCourse DEF RunRank

-----------------------------------------------------------------------------
(* What a step makes of the buffers of the rank that takes it.               *)

LEMMA WorkbufNext ==
    ASSUME NEW r, NEW ph, NEW st, NEW c, NEW n, phase'[r] = ph, step'[r] = st,
           calls'[r] = c, Landed(r)' = n, WorkbufAt(r, ph, st, c, n)'
    PROVE  WorkbufOK(r)'
BY DEF WorkbufOK, WorkbufAt

LEMMA NoPieceArrived ==
    ASSUME NEW r \in Ranks, Received(r)' = 0
    PROVE  Arrived(r)'
<1>1. \A x \in Nat : ~(x < PieceStart(r, 0))
    BY PieceMonotone
<1>2. ASSUME NEW block \in Ranks
      PROVE  \A x \in 0..(BlockCount(block) - 1) : x \in Nat
    BY BlockBounds
<1> QED
    BY <1>1, <1>2 DEF Arrived, ArrivedAt

\* The last entry of the history.
LEMMA RecordedAppend ==
    ASSUME TypeInv, NEW r \in Ranks, Recorded(r), NEW entry,
           returned'[r] = Append(returned[r], entry), pc'[r] = "idle",
           calls'[r] = (IF pc[r] = "idle" THEN calls[r] + 1 ELSE calls[r]),
           entry.status = PG_SUCCESS =>
              \A block \in Ranks : \A e \in BlockElements(block) :
                 entry.recvbuf[e] = Final(block, calls'[r])
    PROVE  Recorded(r)'
<1>1. calls[r] \in Nat
    BY DEF TypeInv, TypeOK, TypeOKProgram
<1>2. PICK S : returned[r] \in Seq(S)
    BY DEF TypeInv, TypeOK, TypeOKProgram
<1>3. PICK n \in Nat : n = Len(returned[r])
    BY <1>2
<1>4. Len(returned'[r]) = n + 1 /\ returned'[r][n + 1] = entry
      /\ \A c \in 1..n : returned'[r][c] = returned[r][c]
    BY <1>2, <1>3
<1>5. n + 1 = calls'[r]
    BY <1>1, <1>3 DEF Recorded
<1>6. ASSUME NEW c \in 1..(n + 1), returned'[r][c].status = PG_SUCCESS,
             NEW block \in Ranks, NEW e \in BlockElements(block)
      PROVE  returned'[r][c].recvbuf[e] = Final(block, c)
    <2>1. CASE c = n + 1
        BY <1>4, <1>5, <1>6, <2>1
    <2>2. CASE c # n + 1
        <3>1. c \in 1..n
            BY <2>2
        <3> QED
            BY <1>3, <1>4, <1>6, <3>1 DEF Recorded
    <2> QED
        BY <2>1, <2>2
<1> QED
    BY <1>4, <1>5, <1>6 DEF Recorded

LEMMA RecordedSame ==
    ASSUME NEW r, Recorded(r), returned'[r] = returned[r], calls'[r] = calls[r],
           pc'[r] = "idle" <=> pc[r] = "idle"
    PROVE  Recorded(r)'
BY DEF Recorded

LEMMA QuietHolds ==
    ASSUME NEW r \in Ranks, WorkbufOK(r), Arrived(r), Recorded(r), Quiet(r)
    PROVE  WorkbufOK(r)' /\ Arrived(r)' /\ Recorded(r)'
<1>1. Landed(r)' = Landed(r)
    BY DEF Quiet, Landed
<1>2. WorkbufOK(r)'
    BY <1>1 DEF Quiet, WorkbufOK, WorkbufAt
<1>3. Arrived(r)'
    BY DEF Quiet, Arrived, ArrivedAt, RecvBlock
<1> QED
    BY <1>2, <1>3, RecordedSame DEF Quiet

\* The piece about to be reduced.
LEMMA HeadPiece ==
    ASSUME PlacedInv, NEW r \in Ranks, AboutToReduce(r)
    PROVE  /\ Unfailed(r) /\ Reduced(r) \in Nat /\ Received(r) \in Nat
           /\ Reduced(r) + 1 <= Received(r) /\ Reduced(r) < Pieces(r, RecvBlock(r))
           /\ Head(recv_requests[r]).element_offset = PieceStart(r, Reduced(r))
           /\ Head(recv_requests[r]).element_count = CutLength(r, RecvBlock(r), Reduced(r))
<1> DEFINE list == recv_requests[r]
<1>0. TypeInv /\ LinkInv /\ Tracked(r) /\ Awaiting(r) /\ Located(r)
    BY DEF PlacedInv, HeldInv, LinkInv
<1>1. Unfailed(r) /\ pc[r] = "waitRecv"
    BY <1>0 DEF AboutToReduce, LinkInv, FailedStaysOut
<1>2. list # <<>> /\ Head(list).request \in completed[r]
    BY <1>1 DEF AboutToReduce, Awaited
<1>3. /\ ListFrom(r, RecvBlock(r), list, Reduced(r))
      /\ WaitedFor(list, recv_queue[r])
    BY <1>0, <1>1 DEF Awaiting, Reduced
<1>4. /\ list \in Seq(PostedRequests(RequestStates)) /\ recv_queue[r] \in Seq(RecvWrs)
      /\ Len(list) \in Nat /\ Len(recv_queue[r]) \in Nat
    BY <1>0, QueueTypes
<1>5. Head(list).request \notin Named(recv_queue[r], "wr_id")
    BY <1>0, <1>2 DEF Tracked, Receiving
<1>6. Len(recv_queue[r]) < Len(list)
    BY <1>2, <1>3, <1>4, <1>5, WaitedForDone, Zenon
<1>7. /\ Reduced(r) \in Nat /\ Received(r) \in Nat /\ RecvsPosted(r) \in Nat
      /\ Received(r) <= RecvsPosted(r) /\ RecvsPosted(r) <= Pieces(r, RecvBlock(r))
      /\ Pieces(r, RecvBlock(r)) \in Nat
    BY <1>1, LandedFacts
<1>8. Reduced(r) + 1 <= Received(r)
    <2>1. \A p, l, q \in Nat : q < l /\ p - l \in Nat => (p - l) + 1 <= p - q
        OBVIOUS
    <2> QED
        BY <1>4, <1>6, <1>7, <2>1, Zenon DEF Reduced, Received
<1>9. Reduced(r) < Pieces(r, RecvBlock(r))
    BY <1>7, <1>8
<1>10. /\ Head(list).element_offset = PieceStart(r, Reduced(r))
       /\ Head(list).element_count = CutLength(r, RecvBlock(r), Reduced(r))
    <2>1. Head(list) = list[1] /\ 1 \in 1..Len(list) /\ Reduced(r) + 1 - 1 = Reduced(r)
        BY <1>2, <1>4, <1>7
    <2> QED
        BY <1>3, <2>1 DEF ListFrom
<1> QED
    BY <1>1, <1>7, <1>8, <1>9, <1>10

\* What the program knows of its block at a step.
LEMMA OwnBlock ==
    ASSUME AlignedInv, NEW r \in Ranks
    PROVE  /\ RecvBlock(r) = Back(r, RecvIndex(phase[r], step[r]))
           /\ SendBlock(r) = Back(r, SendIndex(phase[r], step[r]))
           /\ RecvIndex(phase[r], step[r]) \in 0..Size
           /\ SendIndex(phase[r], step[r]) \in 0..Size
<1>1. phase[r] \in {ReduceScatter, AllGather} /\ step[r] \in 0..(WorldSize - 2)
    BY DataFacts DEF TypeOKProgram
<1> QED
    BY <1>1, BlockIndices DEF RecvBlock, SendBlock

LEMMA ReducesHolds ==
    ASSUME AlignedInv, NEW r \in Ranks, WorkbufOK(r), Arrived(r), Recorded(r), Reduces(r)
    PROVE  WorkbufOK(r)' /\ Arrived(r)' /\ Recorded(r)'
<1>0. PICK rb, m, st, c :
         rb = RecvBlock(r) /\ m = Reduced(r) /\ st = step[r] /\ c = calls[r]
    OBVIOUS
<1> DEFINE posted == Head(recv_requests[r])
           target == ReduceTarget(r, posted)
           source == ReduceSource(posted)
           data == reduce_in_place(Contents(r, target), Contents(r, source))
<1>1. /\ TypeOKMemory /\ rb \in Ranks /\ st \in 0..(Size - 1) /\ phase[r] = ReduceScatter
      /\ ReduceScatter # AllGather /\ pc[r] # "idle" /\ AboutToReduce(r)
      /\ rb = Back(r, RecvIndex(ReduceScatter, st)) /\ RecvIndex(ReduceScatter, st) = st + 1
    <2>1. phase[r] = ReduceScatter /\ pc[r] # "idle" /\ AboutToReduce(r)
        BY DEF Reduces, AboutToReduce
    <2>2. RecvIndex(ReduceScatter, st) = st + 1
        BY DEF RecvIndex
    <2>3. ReduceScatter # AllGather
        BY DEF ReduceScatter, AllGather
    <2> QED
        BY <1>0, <2>1, <2>2, <2>3, DataFacts, OwnBlock
<1>2. /\ m \in Nat /\ Received(r) \in Nat /\ m + 1 <= Received(r) /\ m < Pieces(r, rb)
      /\ posted.element_offset = PieceStart(r, m)
      /\ posted.element_count = CutLength(r, rb, m)
    BY <1>0, <1>1, DataFacts, HeadPiece
<1>3. /\ WorkbufAt(r, ReduceScatter, st, c, m)
      /\ ArrivedAt(r, rb, Expected(r, ReduceScatter, st, c), m, Received(r))
    BY <1>0, <1>1 DEF WorkbufOK, Arrived, Landed
<1> HIDE DEF posted
<1>4. /\ BlockOffset(rb) \in Nat /\ BlockCount(rb) \in Nat
      /\ BlockOffset(rb) + BlockCount(rb) <= Count /\ BlockCount(rb) <= TemporaryLength
      /\ PieceStart(r, m) \in Nat /\ CutLength(r, rb, m) \in Nat
      /\ PieceStart(r, m) + CutLength(r, rb, m) <= BlockCount(rb)
      /\ PieceStart(r, m + 1) \in Nat /\ PieceStart(r, m) <= PieceStart(r, m + 1)
      /\ PieceStart(r, m + 1) <= PieceStart(r, Received(r))
      /\ \A x \in 0..(BlockCount(rb) - 1) :
            x < PieceStart(r, m) + CutLength(r, rb, m) => x < PieceStart(r, m + 1)
    <2>1. m + 1 \in Nat
        BY <1>2
    <2> QED
        BY <1>1, <1>2, <2>1, BlockBounds, PieceElements, PieceMonotone, SentPiece
<1>5. /\ target = Region("workbuf", BlockOffset(rb) + PieceStart(r, m), CutLength(r, rb, m))
      /\ source = Region("temporary_buffer", PieceStart(r, m), CutLength(r, rb, m))
    BY <1>0, <1>2 DEF ReduceTarget, ReduceSource
<1>6. target \in Regions
    BY <1>4, <1>5, CountAssumption DEF Regions, Region, BufferLength
<1>7. /\ DOMAIN data = 0..(target.length - 1)
      /\ \A x \in 0..(target.length - 1) :
            data[x] = memory[r].workbuf[target.first + x]
                        \o memory[r].temporary_buffer[source.first + x]
    <2> HIDE DEF target, source
    <2>1. /\ target.length = source.length /\ target.buffer = "workbuf"
          /\ source.buffer = "temporary_buffer"
        BY <1>5 DEF Region
    <2>2. /\ Contents(r, target) =
                [i \in 0..(target.length - 1) |-> memory[r].workbuf[target.first + i]]
          /\ Contents(r, source) =
                [i \in 0..(target.length - 1) |-> memory[r].temporary_buffer[source.first + i]]
        BY <2>1, Zenon DEF Contents
    <2> DEFINE one == Contents(r, target)
               two == Contents(r, source)
    <2>3. data = [i \in DOMAIN one |-> one[i] \o two[i]]
        BY DEF reduce_in_place
    <2>4. /\ DOMAIN one = 0..(target.length - 1)
          /\ \A x \in 0..(target.length - 1) :
                /\ one[x] = memory[r].workbuf[target.first + x]
                /\ two[x] = memory[r].temporary_buffer[source.first + x]
        BY <2>2
    <2> HIDE DEF data, one, two
    <2> QED
        BY <2>3, <2>4
<1>8. memory' = Stored(r, target, data)
    BY DEF Reduces, posted
<1> HIDE DEF target, source, data
<1>9. /\ memory'[r].temporary_buffer = memory[r].temporary_buffer
      /\ \A e \in Elements("workbuf") :
            memory'[r].workbuf[e] =
               IF target.first <= e /\ e < target.first + target.length
               THEN data[e - target.first] ELSE memory[r].workbuf[e]
    <2>1. target.buffer = "workbuf"
        BY <1>5 DEF Region
    <2>2. /\ target.buffer = "workbuf" =>
                memory'[r].temporary_buffer = memory[r].temporary_buffer
          /\ \A e \in Elements(target.buffer) :
                memory'[r][target.buffer][e] =
                   IF target.first <= e /\ e < target.first + target.length
                   THEN data[e - target.first] ELSE memory[r][target.buffer][e]
        BY <1>1, <1>6, <1>7, <1>8, StoredValues
    <2> QED
        BY <2>1, <2>2
<1>10. ASSUME NEW e \in Elements("workbuf")
       PROVE  memory'[r].workbuf[e] =
                 IF InPiece(r, rb, m, e)
                 THEN BlockValue(r, ReduceScatter, st, c, st + 1, TRUE)
                 ELSE memory[r].workbuf[e]
    <2>1. e \in Nat
        BY CountAssumption DEF Elements, BufferLength
    <2>2. target.first <= e /\ e < target.first + target.length <=> InPiece(r, rb, m, e)
        BY <1>5 DEF InPiece, Region
    <2>3. CASE InPiece(r, rb, m, e)
        <3>1. e \in BlockElements(rb) /\ ~(e < BlockOffset(rb) + PieceStart(r, m))
            BY <1>1, <1>2, <2>1, <2>3, InPieceFacts
        <3>2. memory[r].workbuf[e] = BlockValue(r, ReduceScatter, st, c, st + 1, FALSE)
            <4>1. st + 1 \in 0..Size
                BY <1>1, WorldAssumption DEF Size
            <4>2. (e < BlockOffset(rb) + PieceStart(r, m)) = FALSE
                BY <3>1
            <4>3. memory[r].workbuf[e] =
                     BlockValue(r, ReduceScatter, st, c, st + 1,
                                e < BlockOffset(rb) + PieceStart(r, m))
                BY <1>1, <1>3, <3>1, <4>1 DEF WorkbufAt
            <4> QED
                BY <4>2, <4>3
        <3> DEFINE x == e - BlockOffset(rb)
        <3>3. /\ x \in 0..(BlockCount(rb) - 1) /\ PieceStart(r, m) <= x
              /\ x < PieceStart(r, m) + CutLength(r, rb, m)
            BY <1>1, <1>4, <2>1, <2>3, <3>1, ElementTypes DEF InPiece
        <3>4. memory[r].temporary_buffer[x] = Expected(r, ReduceScatter, st, c)
            <4>1. x < PieceStart(r, Received(r))
                <5>1. x < PieceStart(r, m + 1) /\ x \in Nat
                    BY <1>4, <3>3
                <5>2. PieceStart(r, Received(r)) \in Nat
                    BY <1>2, PieceMonotone
                <5> HIDE DEF x
                <5> QED
                    BY <1>4, <5>1, <5>2
            <4> QED
                BY <1>3, <3>3, <4>1 DEF ArrivedAt
        <3>5. memory'[r].workbuf[e] = memory[r].workbuf[e] \o memory[r].temporary_buffer[x]
            <4>1. /\ e - target.first \in 0..(target.length - 1)
                  /\ target.first + (e - target.first) = e
                  /\ source.first + (e - target.first) = x
                BY <1>4, <1>5, <2>1, <2>2, <2>3 DEF Region
            <4> QED
                BY <1>7, <1>9, <2>2, <2>3, <4>1
        <3> QED
            <4>1. BlockValue(r, ReduceScatter, st, c, st + 1, FALSE)
                    \o Expected(r, ReduceScatter, st, c)
                    = BlockValue(r, ReduceScatter, st, c, st + 1, TRUE)
                BY <1>1, ValueReceived
            <4> HIDE DEF x
            <4> QED
                BY <2>3, <3>2, <3>4, <3>5, <4>1
    <2> QED
        BY <1>9, <2>2, <2>3
<1>11. WorkbufAt(r, ReduceScatter, st, c, m + 1)'
    <2>1. \A e \in Elements("workbuf") :
             memory'[r].workbuf[e] =
                 IF InPiece(r, rb, m, e)
                 THEN BlockValue(r, ReduceScatter, st, c, RecvIndex(ReduceScatter, st), TRUE)
                 ELSE memory[r].workbuf[e]
        BY <1>1, <1>10
    <2> QED
        BY <1>1, <1>2, <1>3, <2>1, PieceLands
<1>12. WorkbufOK(r)'
    <2>1. phase'[r] = ReduceScatter /\ step'[r] = st /\ calls'[r] = c /\ Landed(r)' = m + 1
        BY <1>0, <1>1 DEF Reduces, Landed
    <2> QED
        BY <1>11, <2>1, WorkbufNext
<1>13. Arrived(r)'
    <2>1. ArrivedAt(r, rb, Expected(r, ReduceScatter, st, c), m + 1, Received(r))'
        <3>1. ASSUME NEW x \in 0..(BlockCount(rb) - 1), PieceStart(r, m + 1) <= x
              PROVE  PieceStart(r, m) <= x
            BY <1>4, <3>1
        <3>2. Received(r)' = Received(r)
            BY DEF Reduces
        <3> QED
            BY <1>3, <1>9, <3>1, <3>2 DEF ArrivedAt
    <2>2. /\ phase'[r] = ReduceScatter /\ step'[r] = st /\ calls'[r] = c /\ Reduced(r)' = m + 1
          /\ RecvBlock(r)' = rb
        BY <1>0, <1>1 DEF Reduces, RecvBlock
    <2> QED
        BY <2>1, <2>2 DEF Arrived, ArrivedAt
<1> QED
    BY <1>12, <1>13, RecordedSame DEF Reduces

LEMMA BeginsHolds ==
    ASSUME AlignedInv, NEW r \in Ranks, Recorded(r), Begins(r)
    PROVE  WorkbufOK(r)' /\ Arrived(r)' /\ Recorded(r)'
<1>1. PICK c : c = calls[r] + 1
    OBVIOUS
<1>2. /\ TypeOKMemory /\ calls[r] \in Nat /\ Size \in Nat \ {0}
    BY DataFacts, WorldAssumption DEF TypeOKProgram, Size
<1>3. \A e \in Elements("workbuf") : memory'[r].workbuf[e] = <<(<<r, c>>)>>
    BY <1>1, <1>2 DEF Begins, TypeOKMemory
<1>4. Run(r, 1, c) = <<(<<r, c>>)>>
    <2>1. Back(r, 1 - 1) = r
        BY BackFacts
    <2>2. \A i \in 1..1 : i = 1
        OBVIOUS
    <2>3. Run(r, 1, c) = [i \in 1..1 |-> <<r, c>>]
        BY <2>1, <2>2 DEF Run
    <2> QED
        BY <2>3
<1>5. ASSUME NEW i \in 0..Size, NEW e \in BlockElements(Back(r, i))
      PROVE  memory'[r].workbuf[e] =
                BlockValue(r, ReduceScatter, 0, c, i,
                           e < BlockOffset(Back(r, i)) + PieceStart(r, 0))
    <2>1. memory'[r].workbuf[e] = Run(r, 1, c)
        BY <1>3, <1>4 DEF BlockElements
    <2>2. BlockValue(r, ReduceScatter, 0, c, i, FALSE) = Run(r, 1, c)
        <3>1. 0 \in 0..(Size - 1)
            BY <1>2
        <3> QED
            BY <3>1, ValueSteps
    <2>3. (e < BlockOffset(Back(r, i)) + PieceStart(r, 0)) = FALSE
        BY NothingLanded
    <2> QED
        BY <2>1, <2>2, <2>3
<1>6. WorkbufAt(r, ReduceScatter, 0, c, 0)'
    BY <1>5 DEF WorkbufAt
<1>7. WorkbufOK(r)'
    <2>1. phase'[r] = ReduceScatter /\ step'[r] = 0 /\ calls'[r] = c /\ Landed(r)' = 0
        BY <1>1 DEF Begins, Landed
    <2> QED
        BY <1>6, <2>1, WorkbufNext
<1>8. Recorded(r)'
    BY <1>2 DEF Begins, Recorded
<1> QED
    BY <1>7, <1>8, NoPieceArrived DEF Begins

\* What a rank holds when its step is complete.
LEMMA CompleteBlocks ==
    ASSUME AlignedInv, NEW r \in Ranks, WorkbufOK(r), Completes(r), Unfailed(r),
           NEW st, st = step[r], NEW ph, ph = phase[r], NEW c, c = calls[r]
    PROVE  /\ st \in 0..(Size - 1) /\ ph \in {ReduceScatter, AllGather}
           /\ Whole(r, ph, st, c)
<1>1. /\ st \in 0..(Size - 1) /\ ph \in {ReduceScatter, AllGather}
      /\ RecvBlock(r) = Back(r, RecvIndex(ph, st))
    BY DataFacts, OwnBlock
<1>2. PICK n : n = Landed(r)
    OBVIOUS
<1>3. n \in Nat /\ n = Pieces(r, Back(r, RecvIndex(ph, st)))
    <2>1. /\ Reduced(r) \in Nat /\ Received(r) \in Nat /\ RecvsPosted(r) \in Nat
          /\ Reduced(r) <= Received(r) /\ Received(r) <= RecvsPosted(r)
          /\ RecvPieces(r) = Pieces(r, RecvBlock(r))
        BY DataFacts, LandedFacts
    <2>2. Reduced(r) = RecvsPosted(r)
        BY <2>1 DEF Completes, Empty, Reduced
    <2>3. Received(r) = RecvsPosted(r)
        BY <2>1, <2>2
    <2> QED
        BY <1>1, <1>2, <2>1, <2>2, <2>3 DEF Landed, Completes
<1>4. WorkbufAt(r, ph, st, c, n)
    BY <1>2 DEF WorkbufOK, Completes
<1> QED
    BY <1>1, <1>3, <1>4, StepEnds

LEMMA GoesOnHolds ==
    ASSUME AlignedInv, NEW r \in Ranks, Unfailed(r), WorkbufOK(r), Recorded(r), GoesOn(r)
    PROVE  WorkbufOK(r)' /\ Arrived(r)' /\ Recorded(r)'
<1>1. PICK st, ph, c : st = step[r] /\ ph = phase[r] /\ c = calls[r]
    OBVIOUS
<1>2. /\ st \in 0..(Size - 1) /\ ph \in {ReduceScatter, AllGather}
      /\ Whole(r, ph, st, c)
    BY <1>1, CompleteBlocks DEF GoesOn
<1>3. PICK st2, ph2 : st2 = step'[r] /\ ph2 = phase'[r]
    OBVIOUS
<1>4. ASSUME NEW i \in 0..Size
      PROVE  BlockValue(r, ph, st, c, i, TRUE) = BlockValue(r, ph2, st2, c, i, FALSE)
    <2>1. CASE st + 1 <= Size - 1 /\ ph2 = ph /\ st2 = st + 1
        <3>1. BlockValue(r, ph, st, c, i, TRUE) = BlockValue(r, ph, st + 1, c, i, FALSE)
            BY <1>2, <2>1, ValueSteps, Zenon
        <3> QED
            BY <2>1, <3>1
    <2>2. CASE st + 1 >= Size /\ ph = ReduceScatter /\ ph2 = AllGather /\ st2 = 0
        BY <1>2, <2>2, ValueSteps, Zenon
    <2> QED
        BY <1>1, <1>3, <2>1, <2>2 DEF GoesOn
<1>5. ASSUME NEW i \in 0..Size, NEW e \in BlockElements(Back(r, i))
      PROVE  memory'[r].workbuf[e] =
                BlockValue(r, ph2, st2, c, i,
                           e < BlockOffset(Back(r, i)) + PieceStart(r, 0))
    <2>1. memory'[r].workbuf[e] = BlockValue(r, ph2, st2, c, i, FALSE)
        BY <1>2, <1>4 DEF GoesOn, Whole
    <2>2. (e < BlockOffset(Back(r, i)) + PieceStart(r, 0)) = FALSE
        BY NothingLanded
    <2> QED
        BY <2>1, <2>2
<1>6. WorkbufAt(r, ph2, st2, c, 0)'
    BY <1>5 DEF WorkbufAt
<1>7. WorkbufOK(r)'
    <2>1. calls'[r] = c /\ Landed(r)' = 0
        BY <1>1 DEF GoesOn, Landed
    <2> QED
        BY <1>3, <1>6, <2>1, WorkbufNext
<1> QED
    BY <1>7, NoPieceArrived, RecordedSame DEF GoesOn, Completes

LEMMA SucceedsHolds ==
    ASSUME AlignedInv, NEW r \in Ranks, Unfailed(r), WorkbufOK(r), Recorded(r), Succeeds(r)
    PROVE  WorkbufOK(r)' /\ Arrived(r)' /\ Recorded(r)'
<1>1. PICK st, ph, c : st = step[r] /\ ph = phase[r] /\ c = calls[r]
    OBVIOUS
<1>2. /\ st \in 0..(Size - 1) /\ ph = AllGather /\ st + 1 >= Size
      /\ Whole(r, ph, st, c)
    BY <1>1, CompleteBlocks DEF Succeeds
<1>3. ASSUME NEW block \in Ranks, NEW e \in BlockElements(block)
      PROVE  memory[r].workbuf[e] = Final(block, c)
    <2>1. PICK i \in 0..Size : block = Back(r, i)
        BY BackCovers
    <2>2. memory[r].workbuf[e] = BlockValue(r, AllGather, st, c, i, TRUE)
        BY <1>2, <2>1 DEF Whole
    <2>3. BlockValue(r, AllGather, st, c, i, TRUE) = Final(Back(r, i), c)
        <3>1. st \in 0..(Size - 1) /\ i \in 0..Size /\ st + 1 >= Size
            BY <1>2, <2>1
        <3> QED
            BY <3>1, ValueSteps, ZenonT(30)
    <2> QED
        BY <2>1, <2>2, <2>3
<1>4. Recorded(r)'
    <2> DEFINE entry == [status |-> PG_SUCCESS, recvbuf |-> memory[r].workbuf]
    <2>1. /\ \A block \in Ranks : \A e \in BlockElements(block) :
                entry.recvbuf[e] = Final(block, calls'[r])
          /\ returned'[r] = Append(returned[r], entry) /\ pc'[r] = "idle"
          /\ calls'[r] = (IF pc[r] = "idle" THEN calls[r] + 1 ELSE calls[r])
        BY <1>1, <1>3 DEF Succeeds, Completes
    <2> HIDE DEF entry
    <2> QED
        BY <2>1, DataFacts, RecordedAppend
<1> QED
    BY <1>4 DEF Succeeds, WorkbufOK, Arrived

LEMMA FailingHolds ==
    ASSUME AlignedInv, NEW r \in Ranks, Recorded(r), Failing(r)
    PROVE  WorkbufOK(r)' /\ Arrived(r)' /\ Recorded(r)'
<1>1. PICK status \in Statuses \ {PG_SUCCESS} :
         returned'[r] = Append(returned[r], [status  |-> status,
                                             recvbuf |-> memory[r].workbuf])
    BY DEF Failing
<1>2. Recorded(r)'
    <2> DEFINE entry == [status |-> status, recvbuf |-> memory[r].workbuf]
    <2>1. entry.status # PG_SUCCESS /\ returned'[r] = Append(returned[r], entry)
        BY <1>1
    <2> HIDE DEF entry
    <2> QED
        BY <2>1, DataFacts, RecordedAppend DEF Failing
<1> QED
    BY <1>2 DEF Failing, WorkbufOK, Arrived

-----------------------------------------------------------------------------
(* What a step of a rank's program makes of every rank.                      *)

LEMMA OpcodedAppend ==
    ASSUME NEW sends \in Seq(SendWrs), NEW send,
           \A k \in 1..Len(sends) :
              sends[k].opcode = "SEND_WITH_IMM" <=> sends[k].wr_id.mode = EAGER,
           send.opcode = "SEND_WITH_IMM" <=> send.wr_id.mode = EAGER,
           NEW k \in 1..Len(Append(sends, send))
    PROVE  Append(sends, send)[k].opcode = "SEND_WITH_IMM"
              <=> Append(sends, send)[k].wr_id.mode = EAGER
<1>1. PICK n \in Nat : n = Len(sends)
    OBVIOUS
<1>2. /\ Len(Append(sends, send)) = n + 1 /\ Append(sends, send)[n + 1] = send
      /\ \A i \in 1..n : Append(sends, send)[i] = sends[i]
    BY <1>1
<1>3. CASE k = n + 1
    BY <1>2, <1>3
<1>4. CASE k # n + 1
    <2>1. k \in 1..n
        BY <1>2, <1>4
    <2> QED
        BY <1>1, <1>2, <2>1
<1> QED
    BY <1>3, <1>4

LEMMA RunOpcoded ==
    ASSUME TypeInv, NEW r \in Ranks, RunRank(r), \A q \in Ranks : Opcoded(q)
    PROVE  \A q \in Ranks : Opcoded(q)'
<1>1. ASSUME send_queue' = send_queue
      PROVE  \A q \in Ranks : Opcoded(q)'
    BY <1>1 DEF Opcoded
<1>2. CASE Proceed(r) /\ UNCHANGED verbs_vars
    BY <1>1, <1>2 DEF verbs_vars
<1>3. CASE PostRecv(r)
    BY <1>1, <1>3 DEF PostRecv, post_receive_previous, post_receive_throws
<1>4. CASE Poll(r)
    BY <1>1, <1>4 DEF Poll, handle_completion
<1>5. CASE PollFails(r)
    BY <1>1, <1>5 DEF PollFails, verbs_vars
<1>6. CASE Wait(r)
    BY <1>1, <1>6 DEF Wait, consume_request
<1>7. CASE PostSend(r)
    <2>1. CASE post_send_throws(r, SendBytes(r), Tag(r), transfer_mode(r))
        BY <1>1, <2>1 DEF post_send_throws
    <2>2. CASE post_send_next(r, SendRegion(r), SendBytes(r), Tag(r), transfer_mode(r))
        <3>1. PICK send :
                 /\ send.opcode = "SEND_WITH_IMM" <=> send.wr_id.mode = EAGER
                 /\ send_queue' = [send_queue EXCEPT ![r] = Append(@, send)]
            <4>1. \A state, bytes, region, remote :
                     SendWr(state, bytes, region, remote).opcode = "SEND_WITH_IMM"
                       <=> SendWr(state, bytes, region, remote).wr_id.mode = EAGER
                BY DEF SendWr
            <4> DEFINE mode == transfer_mode(r)
                       state == NewRequest(r, "send", Tag(r), SendBytes(r), mode)
                       remote == Head(control[NextRank(r)]).remote_address
                       send == SendWr(state, SendBytes(r), SendRegion(r), remote)
            <4>2. send_queue' = [send_queue EXCEPT ![r] = Append(@, send)]
                BY <2>2 DEF post_send_next
            <4>3. send.opcode = "SEND_WITH_IMM" <=> send.wr_id.mode = EAGER
                BY <4>1
            <4> HIDE DEF send
            <4> QED
                BY <4>2, <4>3
        <3>2. /\ send_queue'[r] = Append(send_queue[r], send) /\ send_queue[r] \in Seq(SendWrs)
              /\ \A q \in Ranks \ {r} : send_queue'[q] = send_queue[q]
            BY <3>1 DEF TypeInv, TypeOK, TypeOKVerbs
        <3>3. Opcoded(r)'
            BY <3>1, <3>2, OpcodedAppend DEF Opcoded
        <3>4. \A q \in Ranks \ {r} : Opcoded(q)'
            BY <3>2 DEF Opcoded
        <3> QED
            BY <3>3, <3>4
    <2> QED
        BY <1>7, <2>1, <2>2 DEF PostSend
<1> QED
    BY <1>2, <1>3, <1>4, <1>5, <1>6, <1>7 DEF RunRank

\* A step of another rank leaves what this one holds.
LEMMA OthersHold ==
    ASSUME TypeInv, NEW r \in Ranks, RunRank(r), NEW q \in Ranks \ {r},
           WorkbufOK(q), Arrived(q), Recorded(q)
    PROVE  WorkbufOK(q)' /\ Arrived(q)' /\ Recorded(q)'
<1>1. /\ pc'[q] = pc[q] /\ phase'[q] = phase[q] /\ step'[q] = step[q]
      /\ calls'[q] = calls[q] /\ returned'[q] = returned[q] /\ memory'[q] = memory[q]
      /\ recv_requests'[q] = recv_requests[q] /\ recv_queue'[q] = recv_queue[q]
    BY RunOthers DEF ProgramOthers, VerbsOthers, SameRequests
<1>2. Received(q)' = Received(q) /\ Reduced(q)' = Reduced(q)
    BY <1>1, RunPosition, ReceivedKept DEF SamePosition
<1>3. Landed(q)' = Landed(q)
    BY <1>1, <1>2 DEF Landed
<1> QED
    BY <1>1, <1>2, <1>3 DEF WorkbufOK, WorkbufAt, Arrived, ArrivedAt, RecvBlock, Recorded

LEMMA RunHolds ==
    ASSUME AlignedInv, ContinueAfterError = FALSE, NEW r \in Ranks, RunRank(r),
           \A q \in Ranks : Holds(q)
    PROVE  \A q \in Ranks : Holds(q)'
<1>1. TypeInv
    BY DataFacts
<1>2. Unfailed(r) /\ Course(r)
    BY DataFacts, RunCourse, RunnerUnfailed
<1>3. WorkbufOK(r) /\ Arrived(r) /\ Recorded(r)
    BY DEF Holds
<1>4. WorkbufOK(r)' /\ Arrived(r)' /\ Recorded(r)'
    BY <1>2, <1>3, QuietHolds, ReducesHolds, BeginsHolds, GoesOnHolds, SucceedsHolds,
       FailingHolds DEF Course
<1>5. \A q \in Ranks \ {r} : WorkbufOK(q)' /\ Arrived(q)' /\ Recorded(q)'
    BY <1>1, OthersHold DEF Holds
<1>6. \A q \in Ranks : Opcoded(q)'
    BY <1>1, RunOpcoded DEF Holds
<1> QED
    BY <1>4, <1>5, <1>6 DEF Holds

-----------------------------------------------------------------------------
(* What is under way.                                                        *)

\* What a write leaves of the pieces a rank is sending.
LEMMA SourcesKept ==
    ASSUME PlacedInv, NEW s \in Ranks, NEW region \in Regions, NEW data,
           DOMAIN data = 0..(region.length - 1), memory' = Stored(s, region, data),
           \A k \in 1..Len(Outgoing(s)) : ~Overlap(region, Outgoing(s)[k]),
           NEW k \in 1..Len(send_queue[s]), NEW x \in 0..(send_queue[s][k].sge.length - 1)
    PROVE  memory'[s].workbuf[send_queue[s][k].sge.first + x]
             = memory[s].workbuf[send_queue[s][k].sge.first + x]
<1> DEFINE one == [i \in 1..Len(send_queue[s]) |-> send_queue[s][i].sge]
           other == [i \in 1..Len(unacknowledged[s]) |-> unacknowledged[s][i].sge]
<1>1. TypeInv /\ TypeOKMemory /\ Placed(s)
    BY DEF PlacedInv, HeldInv, LinkInv, TypeInv, TypeOK
<1>2. /\ send_queue[s] \in Seq(SendWrs) /\ unacknowledged[s] \in Seq(SendWrs)
      /\ Len(send_queue[s]) \in Nat
    BY <1>1, QueueTypes
<1>3. one \in Seq(Regions) /\ other \in Seq(Regions) /\ Len(one) = Len(send_queue[s])
    <2>1. /\ \A i \in 1..Len(send_queue[s]) : send_queue[s][i] \in SendWrs
          /\ \A i \in 1..Len(unacknowledged[s]) : unacknowledged[s][i] \in SendWrs
        BY <1>2, ElementOfSeq
    <2>2. \A m \in SendWrs : m.sge \in Regions
        BY DEF SendWrs
    <2>3. Len(unacknowledged[s]) \in Nat
        BY <1>2
    <2> QED
        BY <1>2, <2>1, <2>2, <2>3
<1>4. Outgoing(s) = one \o other /\ one[k] = send_queue[s][k].sge
    BY DEF Outgoing
<1> HIDE DEF one, other
<1>5. k \in 1..Len(Outgoing(s)) /\ Outgoing(s)[k] = one[k]
    <2>1. /\ Len(one \o other) = Len(one) + Len(other) /\ Len(other) \in Nat
          /\ Len(one) \in Nat
          /\ \A i \in 1..Len(one) + Len(other) :
                (one \o other)[i] = IF i <= Len(one) THEN one[i] ELSE other[i - Len(one)]
        <3>1. /\ Len(one \o other) = Len(one) + Len(other)
              /\ \A i \in 1..Len(one) + Len(other) :
                    (one \o other)[i] = IF i <= Len(one) THEN one[i] ELSE other[i - Len(one)]
            BY <1>3, ConcatProperties, Zenon
        <3>2. Len(one) \in Nat /\ Len(other) \in Nat
            BY <1>3
        <3> QED
            BY <3>1, <3>2
    <2>2. k \in 1..(Len(one) + Len(other)) /\ k <= Len(one)
        BY <1>2, <1>3, <2>1
    <2> QED
        BY <1>4, <2>1, <2>2
<1> DEFINE source == send_queue[s][k].sge
<1>6. /\ source \in Regions /\ ~Overlap(region, source) /\ source.buffer = "workbuf"
    <2>1. source \in Regions
        <3>1. send_queue[s][k] \in SendWrs
            BY <1>2, ElementOfSeq
        <3> QED
            BY <3>1 DEF SendWrs
    <2>2. source.buffer = "workbuf"
        BY <1>1 DEF Placed, PlacedAt, SourcesIn, WithinBlock
    <2> QED
        BY <1>4, <1>5, <2>1, <2>2
<1>7. x \in 0..(source.length - 1)
    OBVIOUS
<1> HIDE DEF source
<1>8. memory'[s][source.buffer][source.first + x] = memory[s][source.buffer][source.first + x]
    BY <1>1, <1>6, <1>7, OutsideKept
<1> QED
    BY <1>6, <1>8 DEF source

\* What reduce_in_place stores fits where it is stored.
LEMMA ReducedData ==
    ASSUME PlacedInv, NEW r \in Ranks, AboutToReduce(r), NEW posted,
           posted = Head(recv_requests[r]), RecvBlock(r) \in Ranks,
           NEW data, data = reduce_in_place(Contents(r, ReduceTarget(r, posted)),
                                            Contents(r, ReduceSource(posted)))
    PROVE  /\ ReduceTarget(r, posted) \in Regions /\ ReduceSource(posted) \in Regions
           /\ ReduceSource(posted).length = ReduceTarget(r, posted).length
           /\ DOMAIN data = 0..(ReduceTarget(r, posted).length - 1)
<1> DEFINE rb == RecvBlock(r)
           m == Reduced(r)
<1>1. /\ m \in Nat /\ m < Pieces(r, rb) /\ posted.element_offset = PieceStart(r, m)
      /\ posted.element_count = CutLength(r, rb, m)
    BY HeadPiece
<1>2. /\ BlockOffset(rb) \in Nat /\ BlockCount(rb) \in Nat
      /\ BlockOffset(rb) + BlockCount(rb) <= Count
      /\ PieceStart(r, m) \in Nat /\ CutLength(r, rb, m) \in Nat
      /\ PieceStart(r, m) + CutLength(r, rb, m) <= BlockCount(rb)
    BY <1>1, BlockBounds, SentPiece
<1>3. ReduceTarget(r, posted)
        = Region("workbuf", BlockOffset(rb) + PieceStart(r, m), CutLength(r, rb, m))
    BY <1>1 DEF ReduceTarget
<1>4. ReduceTarget(r, posted) \in Regions
    BY <1>2, <1>3, CountAssumption DEF Regions, Region, BufferLength
<1>5. \A region : DOMAIN Contents(r, region) = 0..(region.length - 1)
    BY Zenon DEF Contents
<1>6. ReduceSource(posted) \in Regions
    <2>1. BlockCount(rb) <= TemporaryLength /\ TemporaryLength \in Nat
        BY BlockBounds
    <2> QED
        BY <1>1, <1>2, <2>1 DEF ReduceSource, Regions, Region, BufferLength
<1>7. ReduceSource(posted).length = ReduceTarget(r, posted).length
    BY DEF ReduceSource, ReduceTarget, Region
<1> QED
    BY <1>4, <1>5, <1>6, <1>7 DEF reduce_in_place

\* Reducing a piece leaves the pieces under way as they are.
LEMMA ReducesSources ==
    ASSUME PlacedInv, NEW r \in Ranks, RecvBlock(r) \in Ranks, Reduces(r),
           NEW k \in 1..Len(send_queue[r]), NEW x \in 0..(send_queue[r][k].sge.length - 1)
    PROVE  memory'[r].workbuf[send_queue[r][k].sge.first + x]
             = memory[r].workbuf[send_queue[r][k].sge.first + x]
<1> DEFINE posted == Head(recv_requests[r])
           target == ReduceTarget(r, posted)
           data == reduce_in_place(Contents(r, target), Contents(r, ReduceSource(posted)))
<1>1. AboutToReduce(r) /\ memory' = Stored(r, target, data)
    BY DEF Reduces
<1>2. target \in Regions /\ DOMAIN data = 0..(target.length - 1)
    BY <1>1, ReducedData
<1>3. \A i \in 1..Len(Outgoing(r)) : ~Overlap(target, Outgoing(r)[i])
    BY <1>1, PlacedApart DEF BuffersUnshared
<1> HIDE DEF target, data
<1> QED
    BY <1>1, <1>2, <1>3, SourcesKept

\* Ranks in a call that have done as many steps are at the same step of it.
LEMMA EqualSteps ==
    ASSUME TypeInv, NEW r \in Ranks, NEW d \in Ranks, Located(r), Located(d),
           pc[r] # "idle", pc[d] # "idle", StepsDone(r) = StepsDone(d)
    PROVE  phase[r] = phase[d] /\ step[r] = step[d] /\ calls[r] = calls[d]
<1> DEFINE g == StepsDone(r)
           h == StepsDone(d)
<1>1. g = h
    OBVIOUS
<1>2. phase[r] = phase[d] /\ step[r] = step[d]
    BY <1>1, StepFacts
<1>3. calls[r] = calls[d]
    <2>1. PICK n \in Nat \ {0} : WorldSize - 1 = n
        <3>1. WorldSize - 1 \in Nat \ {0}
            BY WorldAssumption
        <3> QED
            BY <3>1
    <2>9. calls[r] \in Int /\ calls[d] \in Int
        BY DEF TypeInv, TypeOK, TypeOKProgram
    <2>2. PICK i \in Int, j \in Int : i = calls[r] - 1 /\ j = calls[d] - 1
        <3>1. calls[r] - 1 \in Int /\ calls[d] - 1 \in Int
            BY <2>9
        <3> QED
            BY <3>1
    <2>3. /\ g = i * 2 * n + phase[r] * n + step[r]
          /\ h = j * 2 * n + phase[d] * n + step[d]
        BY <2>1, <2>2 DEF StepsDone
    <2>4. PICK u \in Int, v \in Int : u = phase[r] * n /\ v = step[r]
        <3>1. phase[r] \in Int /\ step[r] \in Int
            BY DEF TypeInv, TypeOK, TypeOKProgram, ReduceScatter, AllGather
        <3>2. phase[r] * n \in Int
            BY <3>1
        <3> QED
            BY <3>1, <3>2
    <2>5. i * 2 * n + u + v = j * 2 * n + u + v
        BY <1>1, <1>2, <2>3, <2>4
    <2>6. i * 2 * n \in Int /\ j * 2 * n \in Int
        OBVIOUS
    <2>7. i * 2 * n = j * 2 * n
        <3>1. \A y, z \in Int : y + u + v = z + u + v => y = z
            OBVIOUS
        <3> QED
            BY <2>5, <2>6, <3>1, Zenon
    <2>8. i = j
        BY <2>7
    <2> QED
        BY <2>2, <2>8, <2>9
<1> QED
    BY <1>2, <1>3

\* A rank that sends a piece its neighbour takes is in the neighbour's step.
LEMMA SameStepSent ==
    ASSUME AlignedInv, NEW r \in Ranks, NEW d, d = NextRank(r), Sends(r), Unfailed(r),
           Unfailed(d), pc[d] # "idle"
    PROVE  /\ phase[r] = phase[d] /\ step[r] = step[d] /\ calls[r] = calls[d]
           /\ SendBlock(r) = RecvBlock(d) /\ SendsPosted(r) = Taken(d) /\ Like(r, SendBlock(r))
<1>1. d \in Ranks /\ PrevRank(d) = r
    BY Neighbours
<1>2. PlacedInv /\ TypeInv /\ Located(r) /\ Located(d) /\ Placed(d) /\ Aligned(r)
    BY <1>1, DataFacts
<1>3. PICK ph \in {ReduceScatter, AllGather}, rb \in Ranks, sb \in Ranks, a \in Nat,
           b \in Nat : PlacedAt(d, ph, rb, sb, a, b) /\ Current(d, ph, rb, sb, a)
    BY <1>2 DEF Placed
<1>4. /\ a < Pieces(d, rb) /\ rb = RecvBlock(d) /\ a + Len(control[d]) = RecvsPosted(d)
      /\ CutLength(r, SendBlock(r), SendsPosted(r)) = CutLength(d, rb, a)
    BY <1>1, <1>2, <1>3, HeadAnnounces DEF Current
<1> DEFINE g == StepsDone(r)
           h == StepsDone(d)
           p == SendsPosted(r)
           x == Taken(d)
<1>5. /\ g \in Nat /\ h \in Nat /\ p \in Nat /\ x \in Nat
      /\ SendPieces(r) = Pieces(r, Moved(r, g))
    BY <1>2, LinkCounts
<1>6. x = a
    <2>1. Len(control[d]) \in Nat
        BY <1>1, <1>2, QueueTypes
    <2>2. \A n, l \in Nat : (n + l) - l = n
        OBVIOUS
    <2> QED
        BY <1>4, <2>1, <2>2, Zenon DEF Taken
<1>7. SendBlock(r) = Moved(r, g) /\ RecvBlock(d) = Moved(r, h)
    BY <1>1, <1>2, StepFacts
<1>8. p < Pieces(r, Moved(r, g))
    BY <1>5 DEF Sends
<1>9. AlignedAt(r, g, h, p, x)
    BY <1>2 DEF Aligned
<1>10. Moved(r, g) \in Ranks
    BY <1>5, MovedType
<1>11. /\ x < Pieces(d, Moved(r, h))
       /\ CutLength(r, Moved(r, g), p) = CutLength(d, Moved(r, h), x)
    BY <1>4, <1>6, <1>7
<1>12. g = h /\ p = x /\ Like(r, Moved(r, g))
    <2> HIDE DEF g, h, p, x
    <2>1. g = h /\ p = x /\ AlignedAt(r, g, h, p + 1, x + 1)
        BY <1>5, <1>8, <1>9, <1>10, <1>11, PieceExchanged
    <2>2. p + 1 > 0
        BY <1>5
    <2> QED
        BY <2>1, <2>2 DEF AlignedAt
<1>13. pc[r] # "idle"
    BY DEF Sends
<1>14. phase[r] = phase[d] /\ step[r] = step[d] /\ calls[r] = calls[d]
    BY <1>1, <1>2, <1>12, <1>13, EqualSteps
<1> QED
    BY <1>7, <1>12, <1>14

\* What it holds of the block it sends is what the neighbour expects.
LEMMA SentBlock ==
    ASSUME AlignedInv, NEW r \in Ranks, NEW d, d = NextRank(r), Sends(r), Unfailed(r),
           Unfailed(d), pc[d] # "idle", WorkbufOK(r), NEW e \in BlockElements(SendBlock(r))
    PROVE  memory[r].workbuf[e] = Expected(d, phase[d], step[d], calls[d])
<1> DEFINE i == SendIndex(phase[r], step[r])
<1>1. /\ phase[r] \in {ReduceScatter, AllGather} /\ step[r] \in 0..(Size - 1)
      /\ SendBlock(r) = Back(r, i) /\ i \in 0..Size
    BY DataFacts, OwnBlock
<1>2. PICK done \in BOOLEAN :
         memory[r].workbuf[e] = BlockValue(r, phase[r], step[r], calls[r], i, done)
    <2>1. WorkbufAt(r, phase[r], step[r], calls[r], Landed(r))
        BY DEF WorkbufOK, Sends
    <2>2. memory[r].workbuf[e] =
             BlockValue(r, phase[r], step[r], calls[r], i,
                        e < BlockOffset(Back(r, i)) + PieceStart(r, Landed(r)))
        BY <1>1, <2>1 DEF WorkbufAt
    <2>3. (e < BlockOffset(Back(r, i)) + PieceStart(r, Landed(r))) \in BOOLEAN
        OBVIOUS
    <2> QED
        BY <2>2, <2>3
<1>3. BlockValue(r, phase[r], step[r], calls[r], i, done)
        = Expected(d, phase[r], step[r], calls[r])
    BY <1>1, ValueSent
<1>4. phase[r] = phase[d] /\ step[r] = step[d] /\ calls[r] = calls[d]
    BY SameStepSent
<1> QED
    BY <1>2, <1>3, <1>4

\* What it sends is what the neighbour expects.
LEMMA SentValue ==
    ASSUME AlignedInv, NEW r \in Ranks, NEW d, d = NextRank(r), Sends(r), Unfailed(r),
           Unfailed(d), pc[d] # "idle", WorkbufOK(r), NEW region,
           region = Region("workbuf", BlockOffset(SendBlock(r)) + PieceStart(r, SendsPosted(r)),
                           CutLength(r, SendBlock(r), SendsPosted(r))),
           NEW x \in 0..(region.length - 1)
    PROVE  memory[r].workbuf[region.first + x] = Expected(d, phase[d], step[d], calls[d])
<1> DEFINE b == SendBlock(r)
           j == SendsPosted(r)
           e == region.first + x
<1>1. TypeInv /\ Located(r)
    BY DataFacts
<1>2. b \in Ranks
    BY DataFacts
<1>3. j \in Nat /\ j < Pieces(r, b)
    BY <1>1, CountFacts DEF Sends
<1>4. /\ BlockOffset(b) \in Nat /\ PieceStart(r, j) \in Nat /\ CutLength(r, b, j) \in Nat
      /\ PieceStart(r, j) + CutLength(r, b, j) <= BlockCount(b) /\ BlockCount(b) \in Nat
      /\ BlockOffset(b) + BlockCount(b) <= Count
    BY <1>2, <1>3, SentPiece, BlockBounds
<1>5. /\ e = BlockOffset(b) + PieceStart(r, j) + x /\ x \in Nat /\ x < CutLength(r, b, j)
    BY <1>4 DEF Region
<1>6. e \in BlockElements(b)
    <2> HIDE DEF e, b, j
    <2>1. /\ e \in Nat /\ BlockOffset(b) <= e /\ e < BlockOffset(b) + BlockCount(b)
          /\ e < Count /\ Count \in Nat
        BY <1>4, <1>5, CountAssumption
    <2> QED
        BY <2>1 DEF BlockElements, Elements, BufferLength
<1> HIDE DEF e
<1> QED
    BY <1>6, SentBlock DEF e

LEMMA UnderWayAppend ==
    ASSUME NEW s, NEW sends \in Seq(SendWrs), NEW send, NEW value, UnderWayAt(s, sends, value),
           \A x \in 0..(send.sge.length - 1) : memory[s].workbuf[send.sge.first + x] = value
    PROVE  UnderWayAt(s, Append(sends, send), value)
<1>1. PICK n \in Nat : n = Len(sends)
    OBVIOUS
<1>2. /\ Len(Append(sends, send)) = n + 1 /\ Append(sends, send)[n + 1] = send
      /\ \A i \in 1..n : Append(sends, send)[i] = sends[i]
    BY <1>1
<1>3. ASSUME NEW k \in 1..(n + 1),
             NEW x \in 0..(Append(sends, send)[k].sge.length - 1)
      PROVE  memory[s].workbuf[Append(sends, send)[k].sge.first + x] = value
    <2>1. CASE k = n + 1
        BY <1>2, <2>1
    <2>2. CASE k # n + 1
        <3>1. k \in 1..n
            BY <2>2
        <3> QED
            BY <1>1, <1>2, <3>1 DEF UnderWayAt
    <2> QED
        BY <2>1, <2>2
<1> QED
    BY <1>2, <1>3 DEF UnderWayAt

\* The link out of the rank that takes a step.
LEMMA SenderUnderWay ==
    ASSUME AlignedInv, ContinueAfterError = FALSE, NEW r \in Ranks, RunRank(r),
           Holds(r), UnderWay(r)
    PROVE  UnderWay(r)'
<1>1. PICK d : d = NextRank(r)
    OBVIOUS
<1>2. d \in Ranks /\ d # r
    BY <1>1, Neighbours
<1>3. TypeInv /\ PlacedInv /\ HeldInv /\ LinkInv /\ Located(r) /\ RecvBlock(r) \in Ranks
    BY DataFacts
<1>4. Unfailed(r) /\ Course(r)
    BY <1>3, RunCourse, RunnerUnfailed
<1>5. SamePosition(d) /\ calls'[d] = calls[d]
    BY <1>2, <1>3, RunPosition, RunOthers DEF ProgramOthers
<1>6. PICK value : value = Expected(d, phase[d], step[d], calls[d])
    OBVIOUS
<1>7. Stays(r) \/ Receives(r) \/ Sends(r) \/ Consumes(r) \/ Advances(r) \/ GivesUp(r)
    BY <1>3, RunEffects
<1>8. qp_error' = qp_error
    BY <1>7 DEF Stays, Receives, Sends, Consumes, Advances, GivesUp, QueuesKept
<1> SUFFICES ASSUME ~qp_error[r], Unfailed(d), pc[d] # "idle"
             PROVE  UnderWayAt(r, send_queue[r], value)'
    BY <1>1, <1>5, <1>6, <1>8 DEF UnderWay, SamePosition, SameStep, UnderWayAt
<1>9. UnderWayAt(r, send_queue[r], value)
    BY <1>1, <1>6 DEF UnderWay
<1>10. CASE Sends(r)
    <2>1. memory' = memory
        <3>1. ~Begins(r)
            BY <1>10 DEF Sends, Begins
        <3>2. ~Reduces(r)
            <4>1. Reduced(r)' = Reduced(r)
                BY <1>10 DEF Sends, Reduced
            <4>2. Reduced(r) \in Nat
                BY <1>3, <1>4, LandedFacts
            <4>3. Reduced(r) # Reduced(r) + 1
                BY <4>2
            <4> QED
                BY <4>1, <4>3 DEF Reduces
        <3> QED
            BY <1>4, <3>1, <3>2 DEF Course, Quiet, GoesOn, Succeeds, Failing
    <2>2. PICK send \in SendWrs :
             /\ send.sge = Region("workbuf", BlockOffset(SendBlock(r))
                                               + PieceStart(r, SendsPosted(r)),
                                  CutLength(r, SendBlock(r), SendsPosted(r)))
             /\ send_queue' = [send_queue EXCEPT ![r] = Append(@, send)]
        BY <1>10 DEF Sends
    <2>3. send_queue'[r] = Append(send_queue[r], send) /\ send_queue[r] \in Seq(SendWrs)
        BY <1>3, <2>2 DEF TypeInv, TypeOK, TypeOKVerbs
    <2>4. \A x \in 0..(send.sge.length - 1) : memory[r].workbuf[send.sge.first + x] = value
        BY <1>1, <1>4, <1>6, <1>10, <2>2, SentValue DEF Holds
    <2>5. UnderWayAt(r, Append(send_queue[r], send), value)
        BY <1>9, <2>3, <2>4, UnderWayAppend
    <2> QED
        BY <2>1, <2>3, <2>5 DEF UnderWayAt
<1>11. CASE ~Sends(r)
    <2>1. send_queue' = send_queue
        BY <1>7, <1>11 DEF Stays, Receives, Consumes, Advances, GivesUp, QueuesKept
    <2>2. CASE memory' = memory
        BY <1>9, <2>1, <2>2 DEF UnderWayAt
    <2>3. CASE Reduces(r)
        BY <1>3, <1>9, <2>1, <2>3, ReducesSources DEF UnderWayAt
    <2>4. CASE Begins(r)
        <3>1. send_queue[r] = <<>>
            BY <1>3, <1>4, <2>4, NothingHeld DEF Begins, Empty
        <3>2. \A k \in 1..Len(<<>>) : FALSE
            OBVIOUS
        <3> QED
            BY <2>1, <3>1, <3>2 DEF UnderWayAt
    <2> QED
        BY <1>4, <2>2, <2>3, <2>4 DEF Course, Quiet, GoesOn, Succeeds, Failing
<1> QED
    BY <1>10, <1>11

\* The link into the rank that takes a step.
LEMMA ReceiverUnderWay ==
    ASSUME AlignedInv, ContinueAfterError = FALSE, NEW r \in Ranks, RunRank(r),
           NEW s \in Ranks, NextRank(s) = r, UnderWay(s)
    PROVE  UnderWay(s)'
<1>1. s # r /\ PrevRank(r) = s
    BY Neighbours
<1>2. TypeInv /\ HeldInv /\ LinkInv
    BY DataFacts
<1>3. Unfailed(r) /\ Course(r)
    BY <1>2, RunCourse, RunnerUnfailed
<1>4. memory'[s] = memory[s] /\ send_queue'[s] = send_queue[s]
    BY <1>1, <1>2, RunOthers DEF ProgramOthers, VerbsOthers, SameRequests
<1>5. qp_error' = qp_error
    <2>1. Located(r)
        BY DataFacts
    <2> QED
        BY <1>2, <2>1, RunEffects
           DEF Stays, Receives, Sends, Consumes, Advances, GivesUp, QueuesKept
<1>6. CASE Quiet(r) \/ Reduces(r)
    <2>1. /\ pc[r] # "idle" /\ phase'[r] = phase[r] /\ step'[r] = step[r]
          /\ calls'[r] = calls[r]
        BY <1>6 DEF Quiet, Reduces
    <2> QED
        BY <1>3, <1>4, <1>5, <2>1 DEF UnderWay, UnderWayAt
<1>7. CASE Begins(r) \/ GoesOn(r)
    <2>1. send_queue[s] = <<>>
        BY <1>1, <1>2, <1>3, <1>7, NothingHeld DEF Begins, GoesOn, Completes, Empty
    <2>2. \A k \in 1..Len(<<>>) : FALSE
        OBVIOUS
    <2> QED
        BY <1>4, <2>1, <2>2 DEF UnderWay, UnderWayAt
<1>8. CASE Succeeds(r) \/ Failing(r)
    BY <1>8 DEF Succeeds, Failing, UnderWay
<1> QED
    BY <1>3, <1>6, <1>7, <1>8 DEF Course

LEMMA RunUnderWay ==
    ASSUME AlignedInv, ContinueAfterError = FALSE, NEW r \in Ranks, RunRank(r),
           \A q \in Ranks : Holds(q) /\ UnderWay(q)
    PROVE  \A s \in Ranks : UnderWay(s)'
<1>1. ASSUME NEW s \in Ranks PROVE UnderWay(s)'
    <2>1. CASE s = r
        BY <2>1, SenderUnderWay
    <2>2. CASE NextRank(s) = r
        BY <2>2, ReceiverUnderWay
    <2>3. CASE s # r /\ NextRank(s) # r
        <3>1. PICK d \in Ranks \ {r} : d = NextRank(s)
            BY <2>3, Neighbours
        <3>2. TypeInv /\ HeldInv /\ Located(r)
            BY DataFacts
        <3>3. /\ memory'[s] = memory[s] /\ send_queue'[s] = send_queue[s]
              /\ pc'[d] = pc[d] /\ phase'[d] = phase[d] /\ step'[d] = step[d]
              /\ calls'[d] = calls[d] /\ returned'[d] = returned[d]
            BY <2>3, <3>1, <3>2, RunOthers DEF ProgramOthers, VerbsOthers, SameRequests
        <3>4. qp_error' = qp_error
            BY <3>2, RunEffects
               DEF Stays, Receives, Sends, Consumes, Advances, GivesUp, QueuesKept
        <3> QED
            BY <3>1, <3>3, <3>4 DEF UnderWay, UnderWayAt, Unfailed, LastStatus
    <2> QED
        BY <2>1, <2>2, <2>3
<1> QED
    BY <1>1

-----------------------------------------------------------------------------
(* What the fabric makes of the buffers.                                     *)

\* What a delivery writes, and where.
Destination(s) == Head(send_queue[s]).remote_address
Origin(s)      == Head(send_queue[s]).sge

LEMMA DeliveryFacts ==
    ASSUME AlignedInv, NEW s \in Ranks, Opcoded(s), Deliver(s)
    PROVE  LET d == NextRank(s) IN
           /\ Destination(s) \in Regions /\ Destination(s).length = Origin(s).length
           /\ memory' = Stored(d, Destination(s), Contents(s, Origin(s)))
           /\ DOMAIN Contents(s, Origin(s)) = 0..(Destination(s).length - 1)
           /\ send_queue[s] # <<>> /\ send_queue[s] \in Seq(SendWrs)
           /\ send_queue'[s] = Tail(send_queue[s])
           /\ recv_queue[d] # <<>> /\ recv_queue[d] \in Seq(RecvWrs)
           /\ recv_queue'[d] = Tail(recv_queue[d])
           /\ \A q \in Ranks \ {s} : send_queue'[q] = send_queue[q]
           /\ \A q \in Ranks \ {d} : recv_queue'[q] = recv_queue[q] /\ memory'[q] = memory[q]
           /\ qp_error' = qp_error
<1> DEFINE d == NextRank(s)
           send == Head(send_queue[s])
           recv == Head(recv_queue[d])
<1>1. d \in Ranks /\ PrevRank(d) = s
    BY Neighbours
<1>2. TypeInv /\ TypeOKMemory /\ TypeOKVerbs /\ LinkOK(s) /\ Placed(d)
    BY <1>1, DataFacts DEF LinkInv
<1>3. /\ send_queue[s] # <<>> /\ send_queue[s] \in Seq(SendWrs)
      /\ recv_queue[d] # <<>> /\ recv_queue[d] \in Seq(RecvWrs) /\ ~qp_error[s]
      /\ qp_error' = qp_error
    BY <1>1, <1>2, QueueTypes DEF Deliver
<1>4. /\ 1 \in 1..Len(send_queue[s]) /\ send = send_queue[s][1] /\ recv = recv_queue[d][1]
      /\ send \in SendWrs
    BY <1>3
<1>5. SendMatches(send, recv)
    BY <1>2, <1>3, <1>4 DEF LinkOK, Matched, SendsMatched
<1>6. IF send.opcode = "SEND_WITH_IMM" THEN recv.sge = send.remote_address ELSE TRUE
    BY <1>4, <1>5 DEF Opcoded, SendMatches
<1>7. send.remote_address \in Regions /\ send.sge \in Regions
    BY <1>4 DEF SendWrs
<1>8. send.remote_address.length = send.sge.length
    <2>1. PICK ph \in {ReduceScatter, AllGather}, rb \in Ranks, b \in Nat :
             SendsFrom(d, ph, rb, send_queue[s], b)
        BY <1>1, <1>2 DEF Placed, PlacedAt
    <2>2. /\ send.remote_address = Landing(d, ph, rb, b + 1 - 1)
          /\ send.sge.length = CutLength(d, rb, b + 1 - 1)
        BY <1>4, <2>1 DEF SendsFrom
    <2> QED
        BY <2>2 DEF Landing, Region
<1>9. memory' = Stored(d, send.remote_address, Contents(s, send.sge))
    BY <1>6 DEF Deliver
<1>10. DOMAIN Contents(s, send.sge) = 0..(send.remote_address.length - 1)
    <2>1. \A region : DOMAIN Contents(s, region) = 0..(region.length - 1)
        BY Zenon DEF Contents
    <2> QED
        BY <1>8, <2>1
<1>11. /\ send_queue'[s] = Tail(send_queue[s]) /\ recv_queue'[d] = Tail(recv_queue[d])
       /\ \A q \in Ranks \ {s} : send_queue'[q] = send_queue[q]
       /\ \A q \in Ranks \ {d} : recv_queue'[q] = recv_queue[q]
    BY <1>1, <1>2 DEF Deliver, TypeOKVerbs
<1> DEFINE region == send.remote_address
           data == Contents(s, send.sge)
<1>12. \A q \in Ranks \ {d} : memory'[q] = memory[q]
    <2>1. region \in Regions /\ DOMAIN data = 0..(region.length - 1)
          /\ memory' = Stored(d, region, data)
        BY <1>7, <1>9, <1>10
    <2> HIDE DEF region, data
    <2> QED
        BY <1>1, <1>2, <2>1, StoredValues
<1> QED
    BY <1>3, <1>7, <1>8, <1>9, <1>10, <1>11, <1>12 DEF Destination, Origin

\* A link delivers the pieces of the receiver's block one after the other.
LEMMA DeliveredPiece ==
    ASSUME AlignedInv, NEW s \in Ranks, Deliver(s), NEW d, d = NextRank(s), Unfailed(d)
    PROVE  /\ Destination(s) = Landing(d, phase[d], RecvBlock(d), Received(d))
           /\ Received(d) \in Nat /\ Received(d) < Pieces(d, RecvBlock(d))
<1>1. d \in Ranks /\ PrevRank(d) = s
    BY Neighbours
<1>2. TypeInv /\ Placed(d) /\ ~qp_error[s] /\ send_queue[s] # <<>>
    BY <1>1, DataFacts DEF Deliver
<1>3. PICK ph \in {ReduceScatter, AllGather}, rb \in Ranks, sb \in Ranks, a \in Nat,
           b \in Nat : PlacedAt(d, ph, rb, sb, a, b) /\ Current(d, ph, rb, sb, a)
    BY <1>2 DEF Placed
<1>4. /\ Len(send_queue[s]) \in Nat /\ send_queue[s] \in Seq(SendWrs)
      /\ Len(recv_queue[d]) \in Nat /\ Len(control[d]) \in Nat
    BY <1>1, <1>2, QueueTypes
<1>5. /\ ph = phase[d] /\ rb = RecvBlock(d) /\ a + Len(control[d]) = RecvsPosted(d)
      /\ a + Len(control[d]) = b + Len(recv_queue[d])
      /\ b + Len(send_queue[s]) <= a /\ a + Len(control[d]) <= Pieces(d, rb)
      /\ SendsFrom(d, ph, rb, send_queue[s], b)
    BY <1>1, <1>2, <1>3 DEF PlacedAt, Current
<1>6. Received(d) = b
    <2>1. \A n, l \in Nat : (n + l) - l = n
        OBVIOUS
    <2>2. RecvsPosted(d) = b + Len(recv_queue[d])
        BY <1>5
    <2> QED
        BY <1>4, <2>1, <2>2, Zenon DEF Received
<1>7. Len(send_queue[s]) >= 1
    BY <1>2, <1>4
<1>8. b < Pieces(d, rb)
    <2>1. Pieces(d, rb) \in Nat
        BY <1>1, PiecesType
    <2>2. \A l, n, m \in Nat : b + l <= a /\ a + n <= m /\ l >= 1 => b < m
        OBVIOUS
    <2> QED
        BY <1>4, <1>5, <1>7, <2>1, <2>2
<1>9. Destination(s) = Landing(d, ph, rb, b)
    <2>1. 1 \in 1..Len(send_queue[s]) /\ Head(send_queue[s]) = send_queue[s][1] /\ b + 1 - 1 = b
        BY <1>4, <1>7
    <2> QED
        BY <1>5, <2>1 DEF SendsFrom, Destination
<1> QED
    BY <1>5, <1>6, <1>8, <1>9

\* It counts as received, and is not waited for yet.
LEMMA DeliveredCounts ==
    ASSUME AlignedInv, NEW s \in Ranks, Opcoded(s), Deliver(s), UNCHANGED program_vars,
           NEW d, d = NextRank(s), Unfailed(d)
    PROVE  Reduced(d)' = Reduced(d) /\ Received(d)' = Received(d) + 1
<1>1. d \in Ranks
    BY Neighbours
<1>2. /\ recv_queue[d] # <<>> /\ recv_queue[d] \in Seq(RecvWrs)
      /\ recv_queue'[d] = Tail(recv_queue[d])
    BY DeliveryFacts
<1>3. RecvsPosted(d)' = RecvsPosted(d) /\ recv_requests' = recv_requests
    BY DEF program_vars, RecvsPosted, BeginPiece, EndPiece, RecvPieces, RecvBlock
<1>4. PICK n \in Nat : Len(recv_queue[d]) = n + 1 /\ Len(recv_queue'[d]) = n
    <2>1. Len(Tail(recv_queue[d])) \in Nat /\ Len(recv_queue[d]) = Len(Tail(recv_queue[d])) + 1
        BY <1>2
    <2> QED
        BY <1>2, <2>1
<1>5. RecvsPosted(d) \in Nat
    BY <1>1, DataFacts, LandedFacts
<1>6. \A p, l \in Nat : p - l = (p - (l + 1)) + 1
    OBVIOUS
<1>7. Received(d)' = Received(d) + 1
    BY <1>3, <1>4, <1>5, <1>6, Zenon DEF Received
<1> QED
    BY <1>3, <1>7 DEF Reduced

\* What a delivery makes of the rank it reaches.
LEMMA ReachedHolds ==
    ASSUME AlignedInv, NEW s \in Ranks, Opcoded(s), Deliver(s), UNCHANGED program_vars,
           NEW d, d = NextRank(s), Holds(d), UnderWay(s)
    PROVE  WorkbufOK(d)' /\ Arrived(d)'
<1> SUFFICES ASSUME pc[d] # "idle" PROVE WorkbufOK(d)' /\ Arrived(d)'
    BY DEF WorkbufOK, Arrived, program_vars
<1>1. d \in Ranks /\ PrevRank(d) = s /\ d # s
    BY Neighbours
<1>2. PICK rb, m, ph, st, c : /\ rb = RecvBlock(d) /\ m = Received(d) /\ ph = phase[d]
                              /\ st = step[d] /\ c = calls[d]
    OBVIOUS
<1>3. PICK region, data : region = Destination(s) /\ data = Contents(s, Origin(s))
    OBVIOUS
<1>4. /\ PlacedInv /\ TypeInv /\ TypeOKMemory /\ Unfailed(d) /\ rb \in Ranks
      /\ ph \in {ReduceScatter, AllGather} /\ st \in 0..(Size - 1)
      /\ rb = Back(d, RecvIndex(ph, st)) /\ RecvIndex(ph, st) \in 0..Size
    BY <1>1, <1>2, DataFacts, OwnBlock DEF FailedStaysOut
<1>5. /\ region = Landing(d, ph, rb, m) /\ m \in Nat /\ m < Pieces(d, rb)
    BY <1>2, <1>3, <1>4, DeliveredPiece
<1>6. /\ region \in Regions /\ memory' = Stored(d, region, data)
      /\ DOMAIN data = 0..(region.length - 1) /\ region.length = Origin(s).length
      /\ recv_queue[d] # <<>> /\ recv_queue[d] \in Seq(RecvWrs)
      /\ recv_queue'[d] = Tail(recv_queue[d])
      /\ send_queue[s] # <<>> /\ send_queue[s] \in Seq(SendWrs)
    BY <1>1, <1>3, DeliveryFacts
<1>7. \A x \in 0..(region.length - 1) : data[x] = Expected(d, ph, st, c)
    <2>1. UnderWayAt(s, send_queue[s], Expected(d, ph, st, c))
        BY <1>2, <1>4 DEF UnderWay, Deliver
    <2>2. 1 \in 1..Len(send_queue[s]) /\ Head(send_queue[s]) = send_queue[s][1]
        BY <1>6
    <2>3. PICK source : source = Origin(s) /\ source = send_queue[s][1].sge
        BY <2>2 DEF Origin
    <2>4. \A x \in 0..(source.length - 1) :
             memory[s].workbuf[source.first + x] = Expected(d, ph, st, c)
        BY <2>1, <2>2, <2>3 DEF UnderWayAt
    <2>5. source.buffer = "workbuf"
        <3>1. Placed(s)
            BY DataFacts
        <3> QED
            BY <2>2, <2>3, <3>1 DEF Placed, PlacedAt, SourcesIn, WithinBlock
    <2>6. data = [i \in 0..(source.length - 1) |-> memory[s][source.buffer][source.first + i]]
        BY <1>3, <2>3, Zenon DEF Contents
    <2>7. region.length = source.length
        BY <1>6, <2>3
    <2> SUFFICES ASSUME NEW x \in 0..(source.length - 1)
                 PROVE  data[x] = Expected(d, ph, st, c)
        BY <2>7
    <2>8. data[x] = memory[s][source.buffer][source.first + x]
        BY <2>6
    <2> QED
        BY <2>4, <2>5, <2>8
<1>8. /\ BlockOffset(rb) \in Nat /\ BlockCount(rb) \in Nat /\ BlockCount(rb) <= TemporaryLength
      /\ TemporaryLength \in Nat
      /\ PieceStart(d, m) \in Nat /\ CutLength(d, rb, m) \in Nat /\ m + 1 \in Nat
      /\ PieceStart(d, m) + CutLength(d, rb, m) <= BlockCount(rb)
      /\ PieceStart(d, m + 1) \in Nat
      /\ \A x \in 0..(BlockCount(rb) - 1) :
            x < PieceStart(d, m + 1) <=> x < PieceStart(d, m) + CutLength(d, rb, m)
    <2>1. /\ BlockOffset(rb) \in Nat /\ BlockCount(rb) \in Nat
          /\ BlockCount(rb) <= TemporaryLength /\ TemporaryLength \in Nat
        BY <1>4, BlockBounds
    <2>2. /\ PieceStart(d, m + 1) \in Nat
          /\ \A x \in 0..(BlockCount(rb) - 1) :
                x < PieceStart(d, m + 1) <=> x < PieceStart(d, m) + CutLength(d, rb, m)
        BY <1>1, <1>4, <1>5, PieceElements
    <2>3. /\ PieceStart(d, m) \in Nat /\ CutLength(d, rb, m) \in Nat
          /\ PieceStart(d, m) + CutLength(d, rb, m) <= BlockCount(rb)
        BY <1>1, <1>4, <1>5, SentPiece
    <2> QED
        BY <1>5, <2>1, <2>2, <2>3
<1>9. /\ Reduced(d)' = Reduced(d) /\ Received(d)' = m + 1 /\ RecvBlock(d)' = rb
      /\ phase'[d] = ph /\ step'[d] = st /\ calls'[d] = c
    BY <1>2, <1>4, DeliveredCounts DEF program_vars, RecvBlock
<1>10. ReduceScatter # AllGather
    BY DEF ReduceScatter, AllGather
<1>11. \A e \in Elements(region.buffer) :
          memory'[d][region.buffer][e] =
             IF region.first <= e /\ e < region.first + region.length
             THEN Expected(d, ph, st, c) ELSE memory[d][region.buffer][e]
    <2>1. ASSUME NEW e \in Elements(region.buffer), region.first <= e,
                 e < region.first + region.length
          PROVE  e - region.first \in 0..(region.length - 1)
        BY <1>6, <2>1 DEF Elements, Regions, BufferLength
    <2>2. \A e \in Elements(region.buffer) :
             memory'[d][region.buffer][e] =
                IF region.first <= e /\ e < region.first + region.length
                THEN data[e - region.first] ELSE memory[d][region.buffer][e]
        BY <1>1, <1>4, <1>6, StoredValues
    <2> QED
        BY <1>7, <2>1, <2>2
<1>12. CASE ph = AllGather
    <2>1. /\ RecvIndex(ph, st) = st /\ st \in 0..(Size - 1)
          /\ Expected(d, ph, st, c) = BlockValue(d, ph, st, c, RecvIndex(ph, st), TRUE)
        BY <1>1, <1>4, <1>10, <1>12, ValueReceived DEF RecvIndex
    <2>2. region = Region("workbuf", BlockOffset(rb) + PieceStart(d, m), CutLength(d, rb, m))
        BY <1>5, <1>10, <1>12 DEF Landing
    <2>3. \A e \in Elements("workbuf") :
             memory'[d].workbuf[e] =
                IF InPiece(d, rb, m, e)
                THEN BlockValue(d, ph, st, c, RecvIndex(ph, st), TRUE)
                ELSE memory[d].workbuf[e]
        BY <1>11, <2>1, <2>2 DEF Region, InPiece
    <2>4. WorkbufAt(d, ph, st, c, m)
        BY <1>2, <1>10, <1>12 DEF Holds, WorkbufOK, Landed
    <2>5. WorkbufAt(d, ph, st, c, m + 1)'
        BY <1>1, <1>4, <1>5, <2>3, <2>4, PieceLands
    <2>6. WorkbufOK(d)'
        <3>1. Landed(d)' = m + 1
            BY <1>9, <1>10, <1>12 DEF Landed
        <3> QED
            BY <1>9, <2>5, <3>1, WorkbufNext
    <2> QED
        BY <1>9, <1>10, <1>12, <2>6 DEF Arrived
<1>13. CASE ph = ReduceScatter
    <2>1. region = Region("temporary_buffer", PieceStart(d, m), CutLength(d, rb, m))
        BY <1>5, <1>13 DEF Landing
    <2>2. memory'[d].workbuf = memory[d].workbuf
        <3>1. region.buffer = "temporary_buffer"
            BY <2>1 DEF Region
        <3> QED
            BY <1>1, <1>4, <1>6, <3>1, StoredValues
    <2>3. WorkbufOK(d)'
        <3>1. Landed(d)' = Landed(d)
            BY <1>2, <1>9, <1>13 DEF Landed
        <3>2. WorkbufAt(d, ph, st, c, Landed(d))
            BY <1>2 DEF Holds, WorkbufOK
        <3>3. WorkbufAt(d, ph, st, c, Landed(d))'
            BY <2>2, <3>1, <3>2 DEF WorkbufAt
        <3> QED
            BY <1>9, <3>3, WorkbufNext
    <2>4. PICK j : j = Reduced(d)
        OBVIOUS
    <2>5. ArrivedAt(d, rb, Expected(d, ph, st, c), j, m)
        BY <1>2, <1>13, <2>4 DEF Holds, Arrived
    <2>6. ASSUME NEW x \in 0..(BlockCount(rb) - 1), PieceStart(d, j) <= x,
                 x < PieceStart(d, m + 1)
          PROVE  memory'[d].temporary_buffer[x] = Expected(d, ph, st, c)
        <3>1. x \in Nat /\ x \in Elements("temporary_buffer")
            BY <1>8 DEF Elements, BufferLength
        <3>2. x < PieceStart(d, m) + CutLength(d, rb, m)
            BY <1>8, <2>6
        <3>3. memory'[d].temporary_buffer[x] =
                 IF PieceStart(d, m) <= x /\ x < PieceStart(d, m) + CutLength(d, rb, m)
                 THEN Expected(d, ph, st, c) ELSE memory[d].temporary_buffer[x]
            BY <1>11, <2>1, <3>1 DEF Region
        <3>4. CASE PieceStart(d, m) <= x
            BY <3>2, <3>3, <3>4
        <3>5. CASE ~(PieceStart(d, m) <= x)
            <4>1. x < PieceStart(d, m)
                BY <1>8, <3>1, <3>5
            <4> QED
                BY <2>5, <2>6, <3>3, <3>5, <4>1 DEF ArrivedAt
        <3> QED
            BY <3>4, <3>5
    <2>7. Arrived(d)'
        BY <1>9, <2>4, <2>6 DEF Arrived, ArrivedAt
    <2> QED
        BY <2>3, <2>7
<1> QED
    BY <1>4, <1>12, <1>13

\* The oldest message is gone: what was true of all is true of the others.
LEMMA FewerSends ==
    ASSUME NEW sends \in Seq(SendWrs), sends # <<>>, NEW k \in 1..Len(Tail(sends))
    PROVE  k + 1 \in 1..Len(sends) /\ Tail(sends)[k] = sends[k + 1]
<1>1. PICK n \in Nat : Len(sends) = n + 1 /\ Len(Tail(sends)) = n
    <2>1. Len(Tail(sends)) \in Nat /\ Len(sends) = Len(Tail(sends)) + 1
        OBVIOUS
    <2> QED
        BY <2>1, Zenon
<1>2. k \in 1..n
    BY <1>1
<1> QED
    BY <1>1, <1>2

LEMMA OpcodedFewer ==
    ASSUME TypeInv, NEW s \in Ranks, Opcoded(s), send_queue[s] # <<>>,
           send_queue'[s] = Tail(send_queue[s])
    PROVE  Opcoded(s)'
BY QueueTypes, FewerSends DEF Opcoded

\* What a delivery makes of what is under way.
LEMMA DeliverUnderWay ==
    ASSUME AlignedInv, NEW s \in Ranks, Opcoded(s), Deliver(s), UNCHANGED program_vars,
           NEW q \in Ranks, UnderWay(q)
    PROVE  UnderWay(q)'
<1>1. PICK d, value : /\ d = NextRank(s)
                      /\ value = Expected(NextRank(q), phase[NextRank(q)],
                                          step[NextRank(q)], calls[NextRank(q)])
    OBVIOUS
<1>2. d \in Ranks /\ d # s /\ PrevRank(d) = s
    BY <1>1, Neighbours
<1>3. PICK region, data : region = Destination(s) /\ data = Contents(s, Origin(s))
    OBVIOUS
<1>4. /\ region \in Regions /\ memory' = Stored(d, region, data)
      /\ DOMAIN data = 0..(region.length - 1)
      /\ send_queue[s] # <<>> /\ send_queue[s] \in Seq(SendWrs)
      /\ send_queue'[s] = Tail(send_queue[s]) /\ qp_error' = qp_error
      /\ \A o \in Ranks \ {s} : send_queue'[o] = send_queue[o]
      /\ \A o \in Ranks \ {d} : memory'[o] = memory[o]
    BY <1>1, <1>3, DeliveryFacts
<1>5. PlacedInv /\ TypeInv
    BY DataFacts
<1> SUFFICES ASSUME UnderWayAt(q, send_queue[q], value)
             PROVE  UnderWayAt(q, send_queue[q], value)'
    BY <1>1, <1>4 DEF UnderWay, UnderWayAt, program_vars, Unfailed, LastStatus
<1>6. CASE q = s
    <2>1. memory'[s] = memory[s]
        BY <1>2, <1>4
    <2>2. ASSUME NEW k \in 1..Len(Tail(send_queue[s])),
                 NEW x \in 0..(Tail(send_queue[s])[k].sge.length - 1)
          PROVE  memory[s].workbuf[Tail(send_queue[s])[k].sge.first + x] = value
        <3>1. k + 1 \in 1..Len(send_queue[s]) /\ Tail(send_queue[s])[k] = send_queue[s][k + 1]
            BY <1>4, FewerSends
        <3> QED
            BY <1>6, <3>1 DEF UnderWayAt
    <2>3. send_queue'[q] = Tail(send_queue[s]) /\ memory'[q] = memory[s]
        BY <1>4, <1>6, <2>1
    <2>4. ASSUME NEW k \in 1..Len(send_queue'[q]), NEW x \in 0..(send_queue'[q][k].sge.length - 1)
          PROVE  memory'[q].workbuf[send_queue'[q][k].sge.first + x] = value
        BY <2>2, <2>3
    <2> QED
        BY <2>4 DEF UnderWayAt
<1>7. CASE q = d
    <2>1. \A k \in 1..Len(Outgoing(d)) : ~Overlap(region, Outgoing(d)[k])
        <3> DEFINE one == [k \in 1..Len(control[d]) |-> control[d][k].remote_address]
                   other == [k \in 1..Len(send_queue[s]) |-> send_queue[s][k].remote_address]
        <3>1. Incoming(d) = one \o other
            BY <1>2 DEF Incoming
        <3>2. /\ control[d] \in Seq(ControlMessages) /\ Len(control[d]) \in Nat
              /\ Len(send_queue[s]) \in Nat
            BY <1>2, <1>4, <1>5, QueueTypes
        <3>3. /\ one \in Seq(Regions) /\ other \in Seq(Regions)
              /\ Len(one) = Len(control[d]) /\ Len(other) = Len(send_queue[s])
            <4>1. /\ \A k \in 1..Len(control[d]) : control[d][k] \in ControlMessages
                  /\ \A k \in 1..Len(send_queue[s]) : send_queue[s][k] \in SendWrs
                BY <1>4, <3>2, ElementOfSeq
            <4>2. /\ \A m \in ControlMessages : m.remote_address \in Regions
                  /\ \A m \in SendWrs : m.remote_address \in Regions
                BY DEF ControlMessages, SendWrs
            <4> QED
                BY <3>2, <4>1, <4>2
        <3>4. 1 \in 1..Len(send_queue[s]) /\ other[1] = region
            <4>1. 1 \in 1..Len(send_queue[s]) /\ Head(send_queue[s]) = send_queue[s][1]
                BY <1>4
            <4> QED
                BY <1>3, <4>1 DEF Destination
        <3> HIDE DEF one, other
        <3>5. PICK j \in 1..Len(one \o other) : (one \o other)[j] = region
            <4>1. /\ Len(one \o other) = Len(one) + Len(other)
                  /\ \A i \in 1..Len(one) + Len(other) :
                        (one \o other)[i] = IF i <= Len(one) THEN one[i]
                                                            ELSE other[i - Len(one)]
                BY <3>3, ConcatProperties, Zenon
            <4>2. \A n, l \in Nat : 1 \in 1..l => /\ n + 1 \in 1..n + l /\ ~(n + 1 <= n)
                                                  /\ (n + 1) - n = 1
                OBVIOUS
            <4>3. /\ Len(one) + 1 \in 1..Len(one) + Len(other) /\ ~(Len(one) + 1 <= Len(one))
                  /\ (Len(one) + 1) - Len(one) = 1
                BY <3>2, <3>3, <3>4, <4>2
            <4>4. (one \o other)[Len(one) + 1] = region
                BY <3>4, <4>1, <4>3
            <4> QED
                BY <4>1, <4>3, <4>4
        <3>6. BuffersUnshared
            BY <1>5, PlacedApart
        <3> QED
            BY <1>2, <3>1, <3>5, <3>6 DEF BuffersUnshared
    <2>2. send_queue'[d] = send_queue[d]
        BY <1>2, <1>4
    <2>3. ASSUME NEW k \in 1..Len(send_queue[d]),
                 NEW x \in 0..(send_queue[d][k].sge.length - 1)
          PROVE  memory'[d].workbuf[send_queue[d][k].sge.first + x] = value
        <3>1. memory'[d].workbuf[send_queue[d][k].sge.first + x]
                = memory[d].workbuf[send_queue[d][k].sge.first + x]
            BY <1>2, <1>4, <1>5, <2>1, SourcesKept
        <3>2. memory[d].workbuf[send_queue[d][k].sge.first + x] = value
            BY <1>7 DEF UnderWayAt
        <3> QED
            BY <3>1, <3>2
    <2> QED
        BY <1>7, <2>2, <2>3 DEF UnderWayAt
<1>8. CASE q # s /\ q # d
    <2>1. send_queue'[q] = send_queue[q] /\ memory'[q] = memory[q]
        BY <1>4, <1>8
    <2> QED
        BY <2>1, Zenon DEF UnderWayAt
<1> QED
    BY <1>6, <1>7, <1>8

\* What Holds and UnderWay read.
LEMMA HoldsStable ==
    ASSUME NEW q \in Ranks, UNCHANGED program_vars, memory'[q] = memory[q],
           recv_queue'[q] = recv_queue[q]
    PROVE  /\ WorkbufOK(q) => WorkbufOK(q)'
           /\ Arrived(q) => Arrived(q)'
<1>1. RecvsPosted(q)' = RecvsPosted(q)
    BY DEF program_vars, RecvsPosted, BeginPiece, EndPiece, RecvPieces, RecvBlock
<1>2. Reduced(q)' = Reduced(q) /\ Received(q)' = Received(q)
    BY <1>1 DEF Reduced, Received, program_vars
<1>3. Landed(q)' = Landed(q)
    BY <1>2 DEF Landed, program_vars
<1> QED
    BY <1>2, <1>3 DEF WorkbufOK, WorkbufAt, Arrived, ArrivedAt, RecvBlock, program_vars

LEMMA FabricData ==
    ASSUME AlignedInv, NEW s \in Ranks, Fabric(s), \A q \in Ranks : Holds(q) /\ UnderWay(q)
    PROVE  \A q \in Ranks : Holds(q)' /\ UnderWay(q)'
<1>1. /\ TypeInv /\ TypeOKVerbs /\ UNCHANGED program_vars
      /\ \A q \in Ranks : Recorded(q) => Recorded(q)'
    BY DataFacts DEF Fabric, Recorded, program_vars
<1>2. CASE Deliver(s)
    <2>1. PICK d \in Ranks : d = NextRank(s)
        BY Neighbours
    <2>2. Opcoded(s) /\ UnderWay(s) /\ Holds(d)
        BY DEF Holds
    <2>3. /\ send_queue[s] # <<>> /\ send_queue'[s] = Tail(send_queue[s])
          /\ \A q \in Ranks \ {s} : send_queue'[q] = send_queue[q]
          /\ \A q \in Ranks \ {d} : recv_queue'[q] = recv_queue[q] /\ memory'[q] = memory[q]
        BY <1>2, <2>1, <2>2, DeliveryFacts
    <2>4. Opcoded(s)' /\ \A q \in Ranks \ {s} : Opcoded(q)'
        BY <1>1, <2>2, <2>3, OpcodedFewer DEF Opcoded, Holds
    <2>5. WorkbufOK(d)' /\ Arrived(d)'
        BY <1>1, <1>2, <2>1, <2>2, ReachedHolds
    <2>6. \A q \in Ranks \ {d} : WorkbufOK(q)' /\ Arrived(q)'
        BY <1>1, <2>3, HoldsStable DEF Holds
    <2>7. \A q \in Ranks : UnderWay(q)'
        BY <1>1, <1>2, <2>2, DeliverUnderWay
    <2> QED
        BY <1>1, <2>4, <2>5, <2>6, <2>7 DEF Holds
<1>3. CASE ~Deliver(s)
    <2>1. recv_queue' = recv_queue /\ memory' = memory
        BY <1>3 DEF Fabric, Acknowledge, BreakLink, FlushSend
    <2>2. \A q \in Ranks : WorkbufOK(q)' /\ Arrived(q)'
        BY <1>1, <2>1, HoldsStable DEF Holds
    <2>3. \/ send_queue' = send_queue
          \/ /\ qp_error[s] /\ send_queue[s] # <<>> /\ send_queue'[s] = Tail(send_queue[s])
             /\ \A q \in Ranks \ {s} : send_queue'[q] = send_queue[q]
        <3>1. CASE FlushSend(s)
            <4>1. CASE unacknowledged[s] # <<>>
                BY <3>1, <4>1 DEF FlushSend
            <4>2. CASE unacknowledged[s] = <<>>
                <5>1. /\ qp_error[s] /\ <<>> \o send_queue[s] # <<>>
                      /\ send_queue' = [send_queue EXCEPT ![s] = Tail(@)]
                    BY <3>1, <4>2 DEF FlushSend
                <5>2. send_queue[s] # <<>>
                    BY <5>1
                <5> QED
                    BY <1>1, <5>1, <5>2 DEF TypeOKVerbs
            <4> QED
                BY <4>1, <4>2
        <3> QED
            BY <1>3, <3>1 DEF Fabric, Acknowledge, BreakLink
    <2>4. \A q \in Ranks : Opcoded(q)'
        BY <1>1, <2>3, OpcodedFewer DEF Opcoded, Holds
    <2>5. \A q \in Ranks : qp_error[q] => qp_error'[q]
        BY <1>1, <1>3 DEF Fabric, Acknowledge, BreakLink, FlushSend, TypeOKVerbs
    <2>6. ASSUME NEW q \in Ranks PROVE UnderWay(q)'
        <3>1. CASE send_queue'[q] = send_queue[q]
            BY <1>1, <2>1, <2>5, <3>1
               DEF UnderWay, UnderWayAt, program_vars, Unfailed, LastStatus
        <3>2. CASE qp_error[q]
            BY <2>5, <3>2 DEF UnderWay
        <3> QED
            BY <2>3, <3>1, <3>2
    <2> QED
        BY <1>1, <2>2, <2>4, <2>6 DEF Holds
<1> QED
    BY <1>2, <1>3

LEMMA ElementInBlock ==
    ASSUME NEW e \in Elements("workbuf")
    PROVE  \E block \in Ranks : e \in BlockElements(block)
<1>1. e \in 0..(Count - 1) /\ WorldSize \in Nat /\ WorldSize > 0 /\ Count \in Nat
    BY WorldAssumption, CountAssumption DEF Elements, BufferLength
<1>2. PICK b \in 0..(WorldSize - 1) :
         /\ layout_offset(Count, WorldSize, b) <= e
         /\ e < layout_offset(Count, WorldSize, b) + layout_count(Count, WorldSize, b)
    BY <1>1, BlocksCover
<1> QED
    BY <1>2 DEF BlockElements, BlockOffset, BlockCount, Ranks

LEMMA OwnedIsBack ==
    ASSUME NEW r \in Ranks
    PROVE  /\ owned_block(r, WorldSize) = Back(r, Size) /\ Size \in 0..Size
           /\ Back(r, Size) \in Ranks
<1>1. /\ WorldSize \in Nat \ {0} /\ r + 1 \in Int /\ -WorldSize <= r + 1 /\ r + 1 <= WorldSize
      /\ Size \in 0..Size /\ Size \in 0..WorldSize /\ Size = WorldSize - 1
      /\ r \in 0..(WorldSize - 1)
    BY WorldAssumption DEF Size, Ranks
<1>2. positive_mod(r + 1, WorldSize) = IF r + 1 = WorldSize THEN 0 ELSE r + 1
    <2>1. positive_mod(r + 1, WorldSize)
            = IF r + 1 \in {-WorldSize, WorldSize} THEN 0
              ELSE IF r + 1 < 0 THEN r + 1 + WorldSize ELSE r + 1
        BY <1>1, PositiveModValue
    <2>2. ~(r + 1 < 0) /\ r + 1 # -WorldSize
        BY <1>1
    <2> QED
        BY <2>1, <2>2
<1>3. Back(r, Size) \in Ranks
    BY <1>1, BackFacts
<1> QED
    BY <1>1, <1>2, <1>3 DEF owned_block, Back

-----------------------------------------------------------------------------
(* The data invariant, and the properties it implies.                        *)

LEMMA InitData == Init => DataInv
<1> SUFFICES ASSUME Init PROVE DataInv
    OBVIOUS
<1>1. AlignedInv
    BY InitAligned
<1>2. ASSUME NEW r \in Ranks
      PROVE  /\ pc[r] = "idle" /\ returned[r] = <<>> /\ calls[r] = 0 /\ send_queue[r] = <<>>
    BY <1>2 DEF Init, InitProgram, InitVerbs
<1>3. \A x : x \in 1..Len(<<>>) => FALSE
    OBVIOUS
<1>4. ASSUME NEW r \in Ranks PROVE Holds(r) /\ UnderWay(r)
    <2>1. NextRank(r) \in Ranks
        BY Neighbours
    <2>2. WorkbufOK(r) /\ Arrived(r) /\ UnderWay(r)
        BY <1>2, <2>1 DEF WorkbufOK, Arrived, UnderWay
    <2>3. Opcoded(r) /\ Recorded(r)
        BY <1>2, <1>3 DEF Opcoded, Recorded
    <2> QED
        BY <2>2, <2>3 DEF Holds
<1> QED
    BY <1>1, <1>4 DEF DataInv

LEMMA NextData ==
    ASSUME ContinueAfterError = FALSE
    PROVE  DataInv /\ [Next]_vars => DataInv'
<1> SUFFICES ASSUME DataInv, [Next]_vars PROVE DataInv'
    OBVIOUS
<1>1. AlignedInv /\ \A q \in Ranks : Holds(q) /\ UnderWay(q)
    BY DEF DataInv
<1>2. AlignedInv'
    BY <1>1, NextAligned
<1>3. ASSUME NEW r \in Ranks, RunRank(r) PROVE \A q \in Ranks : Holds(q)' /\ UnderWay(q)'
    BY <1>1, <1>3, RunHolds, RunUnderWay
<1>4. ASSUME NEW r \in Ranks, Fabric(r) PROVE \A q \in Ranks : Holds(q)' /\ UnderWay(q)'
    BY <1>1, <1>4, FabricData
<1>5. ASSUME UNCHANGED vars PROVE \A q \in Ranks : Holds(q)' /\ UnderWay(q)'
    <2>1. UNCHANGED program_vars /\ memory' = memory /\ UNCHANGED verbs_vars
        BY <1>5 DEF vars
    <2>2. \A q \in Ranks : WorkbufOK(q)' /\ Arrived(q)'
        BY <1>1, <2>1, HoldsStable DEF Holds, verbs_vars
    <2>3. \A q \in Ranks : Opcoded(q)' /\ Recorded(q)' /\ UnderWay(q)'
        BY <1>1, <2>1
           DEF Holds, Opcoded, Recorded, UnderWay, UnderWayAt, program_vars, verbs_vars,
               Unfailed, LastStatus
    <2> QED
        BY <2>2, <2>3 DEF Holds
<1>6. \A q \in Ranks : Holds(q)' /\ UnderWay(q)'
    BY <1>3, <1>4, <1>5 DEF Next, Finished
<1> QED
    BY <1>2, <1>6 DEF DataInv

\* A call that returns PG_SUCCESS leaves in every element of recvbuf what every
\* rank contributed to it, once each (ring_all_reduce; VerbsRing!OutputsCorrect).
THEOREM SumsComplete ==
    ASSUME ContinueAfterError = FALSE
    PROVE  Spec => []OutputsCorrect
<1>1. ASSUME DataInv PROVE OutputsCorrect
    <2> SUFFICES ASSUME NEW r \in Ranks, NEW c \in 1..Len(returned[r]),
                        returned[r][c].status = PG_SUCCESS, NEW e \in Elements("workbuf")
                 PROVE  Combines(returned[r][c].recvbuf[e], c)
        BY DEF OutputsCorrect
    <2>1. PICK block \in Ranks : e \in BlockElements(block)
        BY ElementInBlock
    <2>2. returned[r][c].recvbuf[e] = Final(block, c)
        BY <1>1, <2>1 DEF DataInv, Holds, Recorded
    <2> QED
        BY <2>2, FinalCombines
<1> QED
    BY <1>1, InitData, NextData, PTL DEF Spec

\* What Reduce-Scatter promises All-Gather: from its first step on, the owned
\* block (rank + 1) mod size is complete (VerbsRing!OwnedBlockReduced).
THEOREM OwnedBlockComplete ==
    ASSUME ContinueAfterError = FALSE
    PROVE  Spec => []OwnedBlockReduced
<1>1. ASSUME DataInv PROVE OwnedBlockReduced
    <2> SUFFICES ASSUME NEW r \in Ranks, pc[r] # "idle", phase[r] = AllGather,
                        NEW e \in BlockElements(owned_block(r, WorldSize))
                 PROVE  Combines(memory[r].workbuf[e], calls[r])
        BY DEF OwnedBlockReduced
    <2>1. /\ owned_block(r, WorldSize) = Back(r, Size) /\ Size \in 0..Size
          /\ Back(r, Size) \in Ranks
        BY OwnedIsBack
    <2>2. WorkbufAt(r, AllGather, step[r], calls[r], Landed(r))
        BY <1>1 DEF DataInv, Holds, WorkbufOK
    <2>3. PICK done :
             memory[r].workbuf[e] = BlockValue(r, AllGather, step[r], calls[r], Size, done)
        BY <2>1, <2>2 DEF WorkbufAt
    <2>4. ReduceScatter # AllGather
        BY DEF ReduceScatter, AllGather
    <2>5. memory[r].workbuf[e] = Final(Back(r, Size), calls[r])
        BY <2>3, <2>4 DEF BlockValue
    <2> QED
        BY <2>1, <2>5, FinalCombines
<1> QED
    BY <1>1, InitData, NextData, PTL DEF Spec

\* Where more pieces of a step have landed, no element combines fewer
\* contributions.
LEMMA WorkbufGrows ==
    ASSUME NEW r \in Ranks, NEW ph \in {ReduceScatter, AllGather}, NEW st \in 0..(Size - 1),
           NEW c, NEW m \in Nat, NEW n \in Nat, m <= n,
           WorkbufAt(r, ph, st, c, m), WorkbufAt(r, ph, st, c, n)',
           NEW e \in Elements("workbuf")
    PROVE  \/ memory'[r].workbuf[e] = memory[r].workbuf[e]
           \/ Len(memory'[r].workbuf[e]) > Len(memory[r].workbuf[e])
<1>1. PICK block \in Ranks : e \in BlockElements(block)
    BY ElementInBlock
<1>2. PICK i \in 0..Size : Back(r, i) = block
    BY BackCovers
<1> DEFINE was  == e < BlockOffset(block) + PieceStart(r, m)
           will == e < BlockOffset(block) + PieceStart(r, n)
<1>3. was \in BOOLEAN /\ will \in BOOLEAN
    OBVIOUS
<1>4. memory[r].workbuf[e] = BlockValue(r, ph, st, c, i, was)
    BY <1>1, <1>2 DEF WorkbufAt
<1>5. memory'[r].workbuf[e] = BlockValue(r, ph, st, c, i, will)
    BY <1>1, <1>2 DEF WorkbufAt
<1>6. was => will
    <2>1. /\ PieceStart(r, m) \in Nat /\ PieceStart(r, n) \in Nat
          /\ PieceStart(r, m) <= PieceStart(r, n)
        BY PieceMonotone
    <2>2. e \in Nat /\ BlockOffset(block) \in Nat
        BY <1>1, ElementTypes
    <2> QED
        BY <2>1, <2>2
<1> HIDE DEF was, will
<1>7. CASE was = will
    BY <1>4, <1>5, <1>7
<1>8. CASE was = FALSE /\ will = TRUE
    <2>1. /\ memory[r].workbuf[e] = BlockValue(r, ph, st, c, i, FALSE)
          /\ memory'[r].workbuf[e] = BlockValue(r, ph, st, c, i, TRUE)
        BY <1>4, <1>5, <1>8
    <2>2. CASE i # RecvIndex(ph, st)
        <3>1. BlockValue(r, ph, st, c, i, TRUE) = BlockValue(r, ph, st, c, i, FALSE)
            BY <1>1, <2>2, ValueSteps, Zenon
        <3> QED
            BY <2>1, <3>1
    <2>3. CASE i = RecvIndex(ph, st)
        <3>1. st \in Nat /\ WorldSize = Size + 1 /\ Size \in Nat /\ st < Size
            BY WorldAssumption DEF Size
        <3>2. st + 2 > 1 /\ WorldSize > st + 1
            BY <3>1
        <3>3. CASE ph = ReduceScatter
            <4>1. i = st + 1
                BY <2>3, <3>3 DEF RecvIndex
            <4>2. /\ Len(BlockValue(r, ph, st, c, i, FALSE)) = 1
                  /\ Len(BlockValue(r, ph, st, c, i, TRUE)) = st + 2
                BY <3>3, <4>1, ValueReceived, Zenon
            <4> QED
                BY <2>1, <3>2, <4>2
        <3>4. CASE ph = AllGather
            <4>1. ReduceScatter # AllGather
                BY DEF ReduceScatter, AllGather
            <4>2. i = st
                BY <2>3, <3>4, <4>1 DEF RecvIndex
            <4>3. /\ Len(BlockValue(r, ph, st, c, i, FALSE)) = st + 1
                  /\ Len(BlockValue(r, ph, st, c, i, TRUE)) = WorldSize
                BY <3>4, <4>2, ValueReceived, Zenon
            <4> QED
                BY <2>1, <3>2, <4>3
        <3> QED
            BY <3>3, <3>4
    <2> QED
        BY <2>2, <2>3
<1> QED
    BY <1>3, <1>6, <1>7, <1>8

\* Inside a step a rank's landed pieces become more, or its buffer stays as it is.
Progresses(r) ==
    \/ memory'[r] = memory[r]
    \/ /\ Landed(r) \in Nat /\ Landed(r)' \in Nat /\ Landed(r) <= Landed(r)'
       /\ phase'[r] = phase[r] /\ step'[r] = step[r] /\ calls'[r] = calls[r]
       /\ pc'[r] # "idle"

LEMMA RunProgresses ==
    ASSUME AlignedInv, ContinueAfterError = FALSE, NEW q \in Ranks, RunRank(q),
           NEW r \in Ranks, pc[r] # "idle"
    PROVE  Progresses(r)
<1>1. CASE r # q
    <2>1. memory'[r] = memory[r]
        BY <1>1, DataFacts, RunOthers DEF ProgramOthers
    <2> QED
        BY <2>1 DEF Progresses
<1>2. CASE r = q
    <2>1. Course(r)
        BY <1>2, RunCourse
    <2>2. CASE Reduces(r)
        <3>1. /\ phase[r] = ReduceScatter /\ phase'[r] = phase[r] /\ step'[r] = step[r]
              /\ calls'[r] = calls[r] /\ pc'[r] # "idle" /\ Reduced(r)' = Reduced(r) + 1
            BY <2>2 DEF Reduces, AboutToReduce
        <3>2. Unfailed(r) /\ PlacedInv
            BY DataFacts DEF FailedStaysOut
        <3>3. Reduced(r) \in Nat
            BY <3>2, LandedFacts
        <3>4. Landed(r) = Reduced(r) /\ Landed(r)' = Reduced(r)'
            BY <3>1 DEF Landed
        <3>5. \A n \in Nat : n + 1 \in Nat /\ n <= n + 1
            OBVIOUS
        <3> QED
            BY <3>1, <3>3, <3>4, <3>5 DEF Progresses
    <2>3. CASE ~Reduces(r)
        <3>1. memory' = memory
            BY <2>1, <2>3 DEF Course, Quiet, Begins, GoesOn, Succeeds, Failing
        <3> QED
            BY <3>1 DEF Progresses
    <2> QED
        BY <2>2, <2>3
<1> QED
    BY <1>1, <1>2

LEMMA FabricProgresses ==
    ASSUME DataInv, NEW s \in Ranks, Fabric(s), NEW r \in Ranks, pc[r] # "idle"
    PROVE  Progresses(r)
<1>1. AlignedInv /\ Opcoded(s) /\ UNCHANGED program_vars
    BY DEF DataInv, Holds, Fabric
<1>2. CASE Deliver(s) /\ r = NextRank(s)
    <2>1. Unfailed(r) /\ PlacedInv
        BY <1>1, DataFacts DEF FailedStaysOut
    <2>2. Reduced(r)' = Reduced(r) /\ Received(r)' = Received(r) + 1
        BY <1>1, <1>2, <2>1, DeliveredCounts
    <2>3. Reduced(r) \in Nat /\ Received(r) \in Nat
        BY <2>1, LandedFacts
    <2>4. Landed(r) \in Nat /\ Landed(r)' \in Nat /\ Landed(r) <= Landed(r)'
        BY <1>1, <2>2, <2>3 DEF Landed, program_vars
    <2> QED
        BY <1>1, <2>4 DEF Progresses, program_vars
<1>3. CASE Deliver(s) /\ r # NextRank(s)
    <2>1. memory'[r] = memory[r]
        BY <1>1, <1>3, DeliveryFacts
    <2> QED
        BY <2>1 DEF Progresses
<1>4. CASE ~Deliver(s)
    BY <1>4 DEF Fabric, Acknowledge, BreakLink, FlushSend, Progresses
<1> QED
    BY <1>2, <1>3, <1>4

\* Inside a call no write to workbuf, by the program or by the fabric, replaces a
\* value by one that combines no more contributions (reduce_in_place and the
\* RDMA writes of All-Gather; VerbsRing!ContributionsGrow).
THEOREM ContributionsOnlyGrow ==
    ASSUME ContinueAfterError = FALSE
    PROVE  Spec => ContributionsGrow
<1>1. DataInv /\ DataInv' /\ [Next]_vars =>
        \A r \in Ranks : pc[r] # "idle" =>
          \A e \in Elements("workbuf") :
              \/ memory'[r].workbuf[e] = memory[r].workbuf[e]
              \/ Len(memory'[r].workbuf[e]) > Len(memory[r].workbuf[e])
    <2> SUFFICES ASSUME DataInv, DataInv', [Next]_vars, NEW r \in Ranks, pc[r] # "idle",
                        NEW e \in Elements("workbuf")
                 PROVE  \/ memory'[r].workbuf[e] = memory[r].workbuf[e]
                        \/ Len(memory'[r].workbuf[e]) > Len(memory[r].workbuf[e])
        OBVIOUS
    <2>1. AlignedInv
        BY DEF DataInv
    <2>2. Progresses(r)
        <3>1. CASE UNCHANGED vars
            BY <3>1 DEF vars, Progresses
        <3>2. CASE Finished
            BY <3>2 DEF Finished, vars, Progresses
        <3> QED
            BY <2>1, <3>1, <3>2, RunProgresses, FabricProgresses DEF Next
    <2>3. CASE memory'[r] = memory[r]
        BY <2>3
    <2>4. CASE memory'[r] # memory[r]
        <3>1. PICK ph, st, c, m, n :
                 /\ ph = phase[r] /\ st = step[r] /\ c = calls[r]
                 /\ m = Landed(r) /\ n = Landed(r)'
            OBVIOUS
        <3>2. /\ m \in Nat /\ n \in Nat /\ m <= n
              /\ phase'[r] = ph /\ step'[r] = st /\ calls'[r] = c /\ pc'[r] # "idle"
            BY <2>2, <2>4, <3>1 DEF Progresses
        <3>3. ph \in {ReduceScatter, AllGather} /\ st \in 0..(Size - 1)
            BY <2>1, <3>1, DataFacts
        <3>4. WorkbufAt(r, ph, st, c, m)
            BY <3>1 DEF DataInv, Holds, WorkbufOK
        <3>5. WorkbufAt(r, ph, st, c, n)'
            <4>1. WorkbufOK(r)'
                BY DEF DataInv, Holds
            <4> QED
                BY <3>1, <3>2, <4>1 DEF WorkbufOK, WorkbufAt
        <3> QED
            BY <3>2, <3>3, <3>4, <3>5, WorkbufGrows
    <2> QED
        BY <2>3, <2>4
<1> QED
    BY <1>1, InitData, NextData, PTL DEF Spec, ContributionsGrow

-----------------------------------------------------------------------------
(* Calls that some rank cannot serve: the invariant.                         *)

\* An element of a block, by its place in it, that no tag of rank q reaches.
Beyond(q, x) == PieceStart(q, kPieceMask + 1) <= x

Without(value, q) == \A i \in 1..Len(value) : value[i][1] # q

\* Only an operation that is known combines contributions.
Combinable(value) == Len(value) > 1 => \A i \in 1..Len(value) : Calls[value[i][2]] = "valid"

\* A value may travel at this place of a block: no rank without a tag for the
\* place put anything in it.
Untied(value, x) == (\A q \in Ranks : Beyond(q, x) => Without(value, q)) /\ Combinable(value)

\* A value may stay with rank r, who alone contributed where it has no tags.
Fit(value, r, x) ==
    /\ \A q \in Ranks : Beyond(q, x) =>
          IF q = r THEN \A i \in 1..Len(value) : value[i][1] = q ELSE Without(value, q)
    /\ Combinable(value)

AllFit(buffer, r) ==
    \A block \in Ranks : \A e \in BlockElements(block) :
        Fit(buffer[e], r, e - BlockOffset(block))

\* Every piece a rank has posted has a tag.
Tagged(r) ==
    pc[r] # "idle" => RecvsPosted(r) <= kPieceMask + 1 /\ SendsPosted(r) <= kPieceMask + 1

\* A call under way passed the checks of ring_all_reduce.
Entered(r) == pc[r] # "idle" => CallKind(r) \in {"valid", "bad_operation"}

\* Pieces of the step that arrived or are under way, and what they are made of.
Coming(r) == Received(r) + Len(send_queue[PrevRank(r)])

Reaching(r) ==
    pc[r] # "idle" =>
        \A x \in 0..(BlockCount(RecvBlock(r)) - 1) :
            x < PieceStart(r, Coming(r)) =>
                Untied(Expected(r, phase[r], step[r], calls[r]), x)

RecordsFit(r) == \A c \in 1..Len(returned[r]) : AllFit(returned[r][c].recvbuf, r)

Serves(r) ==
    /\ Tagged(r) /\ Entered(r) /\ Reaching(r)
    /\ Unfailed(r) => AllFit(memory[r].workbuf, r)
    /\ RecordsFit(r)

ServedInv == DataInv /\ \A r \in Ranks : Serves(r)

-----------------------------------------------------------------------------
(* Values.                                                                   *)

\* What a rank has tags for is a beginning of its pieces.
LEMMA MaskFacts ==
    ASSUME NEW q \in Ranks
    PROVE  /\ kPieceMask + 1 \in Nat /\ PieceStart(q, kPieceMask + 1) \in Nat
           /\ \A j \in Nat :
                 j <= kPieceMask + 1 => PieceStart(q, j) <= PieceStart(q, kPieceMask + 1)
<1>1. kPieceMask + 1 \in Nat
    BY MaskAssumption
<1> QED
    BY <1>1, PieceMonotone

\* Joining two values joins what they are without.
LEMMA JoinedWithout ==
    ASSUME NEW S, NEW u \in Seq(S), NEW v \in Seq(S), NEW q,
           Without(u, q), Without(v, q)
    PROVE  Without(u \o v, q)
<1>1. /\ Len(u \o v) = Len(u) + Len(v) /\ Len(u) \in Nat /\ Len(v) \in Nat
      /\ \A i \in 1..(Len(u) + Len(v)) :
            (u \o v)[i] = IF i <= Len(u) THEN u[i] ELSE v[i - Len(u)]
    <2>1. /\ Len(u \o v) = Len(u) + Len(v)
          /\ \A i \in 1..Len(u) + Len(v) :
                (u \o v)[i] = IF i <= Len(u) THEN u[i] ELSE v[i - Len(u)]
        BY ConcatProperties, Zenon
    <2>2. Len(u) \in Nat /\ Len(v) \in Nat
        OBVIOUS
    <2> QED
        BY <2>1, <2>2
<1>2. ASSUME NEW i \in 1..(Len(u) + Len(v)) PROVE (u \o v)[i][1] # q
    <2>1. CASE i <= Len(u)
        <3>1. i \in 1..Len(u)
            BY <1>1, <2>1
        <3> QED
            BY <1>1, <2>1, <3>1 DEF Without
    <2>2. CASE ~(i <= Len(u))
        <3>1. i - Len(u) \in 1..Len(v)
            BY <1>1, <2>2
        <3> QED
            BY <1>1, <2>2, <3>1 DEF Without
    <2> QED
        BY <2>1, <2>2
<1> QED
    BY <1>1, <1>2 DEF Without

\* Whatever is combined in a call with a known operation may be.
LEMMA CallValue ==
    ASSUME NEW r \in Ranks, NEW ph \in {ReduceScatter, AllGather}, NEW st \in 0..(Size - 1),
           NEW c, NEW i \in 0..Size, NEW done \in BOOLEAN
    PROVE  LET v == BlockValue(r, ph, st, c, i, done) IN
           /\ v \in Seq(Ranks \X {c}) /\ \A k \in 1..Len(v) : v[k][2] = c
<1>1. /\ WorldSize \in Nat /\ Size = WorldSize - 1 /\ Size \in Nat \ {0}
    BY WorldAssumption DEF Size
<1>2. \A q \in Ranks, n \in 0..WorldSize : Run(q, n, c) \in Seq(Ranks \X {c})
    BY RunType
<1>3. \A q \in Ranks : Final(q, c) \in Seq(Ranks \X {c})
    <2>1. \A q \in Ranks : Back(q, 1) \in Ranks
        BY <1>1, BackFacts
    <2>2. WorldSize \in 0..WorldSize
        BY <1>1
    <2> QED
        BY <1>2, <2>1, <2>2 DEF Final
<1>4. i + 1 \in 0..WorldSize /\ 1 \in 0..WorldSize /\ i \in 0..WorldSize
    BY <1>1
<1>5. Back(r, i) \in Ranks
    BY <1>4, BackFacts
<1>6. BlockValue(r, ph, st, c, i, done) \in Seq(Ranks \X {c})
    <2>1. CASE ph = ReduceScatter
        BY <1>2, <1>4, <2>1 DEF BlockValue
    <2>2. CASE ph # ReduceScatter
        BY <1>2, <1>3, <1>4, <1>5, <2>2 DEF BlockValue
    <2> QED
        BY <2>1, <2>2
<1>7. \A v \in Seq(Ranks \X {c}) : \A k \in 1..Len(v) : v[k] \in Ranks \X {c}
    OBVIOUS
<1>8. \A p \in Ranks \X {c} : p[2] = c
    OBVIOUS
<1> QED
    BY <1>6, <1>7, <1>8

-----------------------------------------------------------------------------
(* What a rank's program has looked at by the time it goes on.               *)

\* Before a call nothing is posted of it.
LEMMA IdlePosted ==
    ASSUME TypeInv, NEW r \in Ranks, Located(r), pc[r] = "idle"
    PROVE  RecvsPosted(r) = 0 /\ SendsPosted(r) = 0
<1>1. BeginPiece(r) = 0 /\ RecvPieces(r) \in Nat /\ SendPieces(r) \in Nat
    BY ConfigTypes, CountFacts DEF Located, BeginPiece
<1>2. /\ RecvsPosted(r) = LeastOf(RecvPieces(r), BeginPiece(r))
      /\ SendsPosted(r) = LeastOf(SendPieces(r), BeginPiece(r))
    BY DEF RecvsPosted, SendsPosted
<1> QED
    BY <1>1, <1>2, LeastFacts

\* A receive is posted under its tag (ring_collectives.cpp:194).
LEMMA ReceivesTagged ==
    ASSUME TypeInv, NEW r \in Ranks, Located(r), RunRank(r), Receives(r)
    PROVE  pc[r] # "idle" /\ RecvsPosted(r) + 1 <= kPieceMask + 1
<1>1. PICK recv \in RecvWrs : recv_queue' = [recv_queue EXCEPT ![r] = Append(@, recv)]
    BY DEF Receives
<1>2. recv_queue' # recv_queue
    <2>1. /\ recv_queue[r] \in Seq(RecvWrs) /\ recv_queue'[r] = Append(recv_queue[r], recv)
        BY <1>1 DEF TypeInv, TypeOK, TypeOKVerbs
    <2>2. Len(recv_queue'[r]) # Len(recv_queue[r])
        BY <2>1
    <2> QED
        BY <2>2
<1>3. PostRecv(r)
    BY <1>2 DEF RunRank, Proceed, PostSend, post_send_next, post_send_throws, Poll,
                handle_completion, PollFails, Wait, consume_request, verbs_vars
<1>4. pc[r] = "postRecv" /\ piece[r] <= kPieceMask
    BY <1>3 DEF PostRecv, RecvToPost, TagInRange
<1>5. RecvsPosted(r) = LeastOf(RecvPieces(r), piece[r]) /\ RecvsPosted(r) < RecvPieces(r)
    BY <1>4 DEF RecvsPosted, Receives
<1>6. piece[r] \in Nat /\ RecvPieces(r) \in Nat
    BY CountFacts
<1> QED
    BY <1>4, <1>5, <1>6, MaskAssumption DEF LeastOf

\* So is a send (ring_collectives.cpp:231).
LEMMA SendsTagged ==
    ASSUME TypeInv, NEW r \in Ranks, Located(r), RunRank(r), Sends(r)
    PROVE  SendsPosted(r) + 1 <= kPieceMask + 1
<1>1. PICK send \in SendWrs : send_queue' = [send_queue EXCEPT ![r] = Append(@, send)]
    BY DEF Sends
<1>2. send_queue' # send_queue
    <2>1. /\ send_queue[r] \in Seq(SendWrs) /\ send_queue'[r] = Append(send_queue[r], send)
        BY <1>1 DEF TypeInv, TypeOK, TypeOKVerbs
    <2>2. Len(send_queue'[r]) # Len(send_queue[r])
        BY <2>1
    <2> QED
        BY <2>2
<1>3. PostSend(r)
    BY <1>2 DEF RunRank, Proceed, PostRecv, post_receive_previous, post_receive_throws, Poll,
                handle_completion, PollFails, Wait, consume_request, verbs_vars
<1>4. pc[r] = "postSend" /\ piece[r] <= kPieceMask
    BY <1>3 DEF PostSend, SendToPost, TagInRange
<1>5. SendsPosted(r) = LeastOf(SendPieces(r), piece[r]) /\ SendsPosted(r) < SendPieces(r)
    BY <1>4 DEF SendsPosted, Sends
<1>6. piece[r] \in Nat /\ SendPieces(r) \in Nat
    BY CountFacts
<1> QED
    BY <1>4, <1>5, <1>6, MaskAssumption DEF LeastOf

\* Every step of a rank keeps to its tags.
LEMMA RunTagged ==
    ASSUME AlignedInv, AlignedInv', NEW r \in Ranks, RunRank(r), Tagged(r)
    PROVE  Tagged(r)'
<1>1. TypeInv /\ HeldInv /\ Located(r)
    BY DataFacts
<1>2. Unfailed(r)' \/ pc'[r] = "idle"
    BY DEF AlignedInv, PlacedInv, HeldInv, LinkInv, FailedStaysOut
<1>3. /\ RecvsPosted(r) \in Nat /\ SendsPosted(r) \in Nat /\ kPieceMask + 1 \in Nat
      /\ 0 <= kPieceMask + 1
    BY <1>1, CountFacts, MaskAssumption
<1>4. RecvsPosted(r) <= kPieceMask + 1 /\ SendsPosted(r) <= kPieceMask + 1
    <2>1. CASE pc[r] = "idle"
        BY <1>1, <1>3, <2>1, IdlePosted
    <2> QED
        BY <2>1 DEF Tagged
<1>5. CASE Stays(r) \/ Consumes(r)
    BY <1>4, <1>5 DEF Stays, Consumes, Tagged
<1>6. CASE Receives(r)
    BY <1>1, <1>4, <1>6, ReceivesTagged DEF Receives, Tagged
<1>7. CASE Sends(r)
    BY <1>1, <1>4, <1>7, SendsTagged DEF Sends, Tagged
<1>8. CASE Advances(r)
    BY <1>3, <1>8 DEF Advances, Tagged
<1>9. CASE GivesUp(r)
    BY <1>2, <1>9 DEF GivesUp, Tagged
<1> QED
    BY <1>1, <1>5, <1>6, <1>7, <1>8, <1>9, RunEffects

\* ring_all_reduce lets only these kinds of calls into the ring.
LEMMA RunEnters ==
    ASSUME AlignedInv, ContinueAfterError = FALSE, NEW r \in Ranks, RunRank(r), Entered(r)
    PROVE  Entered(r)'
<1>1. TypeInv /\ TypeOKProgram(RequestStates) /\ Course(r)
    BY DataFacts, RunCourse
<1>2. CASE Begins(r)
    <2>1. pc[r] = "idle" /\ pc'[r] # "idle"
        BY <1>2 DEF Begins
    <2>2. BeginCall(r)
        <3>1. ~RefuseCall(r)
            BY <1>1, <2>1 DEF RefuseCall, Return, Goto, TypeOKProgram
        <3>2. Awaited(r) = {}
            BY <2>1 DEF Awaited
        <3> QED
            BY <2>1, <3>1, <3>2
               DEF RunRank, Proceed, BeginBatch, NextStep, BeginAllGather, ReturnSuccess,
                   TagOutOfRange, RecvToPost, SendToPost, EndPostRecv, EndPostSend,
                   EndWaitRecv, EndBatch, PostRecv, PostSend, Poll, PollFails, Wait
    <2>3. calls'[r] = calls[r] + 1 /\ Calls[calls[r] + 1] \in {"valid", "bad_operation"}
        BY <1>1, <2>2 DEF BeginCall, TypeOKProgram
    <2> QED
        BY <2>3 DEF Entered, CallKind
<1>3. CASE Quiet(r) \/ Reduces(r) \/ GoesOn(r)
    BY <1>3 DEF Quiet, Reduces, GoesOn, Completes, Entered, CallKind
<1>4. CASE Succeeds(r) \/ Failing(r)
    BY <1>4 DEF Succeeds, Failing, Entered
<1> QED
    BY <1>1, <1>2, <1>3, <1>4 DEF Course

\* reduce_in_place refuses an operation it does not know (ring_collectives.cpp:261).
LEMMA ReducesKnown ==
    ASSUME AlignedInv, NEW r \in Ranks, RunRank(r), Reduces(r), Entered(r)
    PROVE  CallKind(r) = "valid"
<1>1. TypeOKProgram(RequestStates)
    BY DataFacts
<1>2. /\ pc[r] = "waitRecv" /\ Awaited(r) # {} /\ Awaited(r) \subseteq completed[r]
      /\ phase[r] = ReduceScatter /\ pc'[r] # "idle" /\ recv_requests[r] # <<>>
    BY DEF Reduces, AboutToReduce, Awaited
<1>3. \A status : ~ReturnError(r, status)
    BY <1>1, <1>2 DEF ReturnError, Return, Goto, TypeOKProgram
<1>4. ~Proceed(r)
    BY <1>2, <1>3
       DEF Proceed, RefuseCall, MayCall, BeginCall, BeginBatch, NextStep, BeginAllGather,
           ReturnSuccess, TagOutOfRange, EndPostRecv, EndPostSend, EndWaitRecv, EndBatch
<1>5. ~PostRecv(r) /\ ~PostSend(r) /\ ~Poll(r) /\ ~PollFails(r)
    BY <1>2 DEF PostRecv, RecvToPost, PostSend, SendToPost, Poll, PollFails
<1>6. Wait(r)
    BY <1>4, <1>5 DEF RunRank
<1>7. RecvWaited(r)
    BY <1>2, <1>3, <1>6 DEF Wait, OperationUnsupported, SendWaited
<1> QED
    BY <1>2, <1>7 DEF RecvWaited, Entered

-----------------------------------------------------------------------------
(* What lands.                                                               *)

\* Nothing arrives that was not asked for.
LEMMA ComingFacts ==
    ASSUME AlignedInv, NEW r \in Ranks, Unfailed(r)
    PROVE  /\ Received(r) \in Nat /\ Coming(r) \in Nat /\ RecvsPosted(r) \in Nat
           /\ Received(r) <= Coming(r) /\ Coming(r) <= RecvsPosted(r)
           /\ Coming(r) <= Taken(r) /\ Taken(r) \in Nat
<1>1. PlacedInv /\ TypeInv /\ Placed(r) /\ PrevRank(r) \in Ranks
    BY DataFacts, Neighbours
<1>2. PICK a \in Nat, b \in Nat :
         /\ b + Len(send_queue[PrevRank(r)]) <= a
         /\ a + Len(control[r]) <= b + Len(recv_queue[r])
         /\ a + Len(control[r]) = RecvsPosted(r)
    <2>1. PICK ph \in {ReduceScatter, AllGather}, rb \in Ranks, sb \in Ranks, a \in Nat,
               b \in Nat : PlacedAt(r, ph, rb, sb, a, b) /\ Current(r, ph, rb, sb, a)
        BY <1>1 DEF Placed
    <2>2. /\ b + Len(send_queue[PrevRank(r)]) <= a
          /\ a + Len(control[r]) <= b + Len(recv_queue[r])
          /\ a + Len(control[r]) = RecvsPosted(r)
        BY <2>1 DEF PlacedAt, Current
    <2> QED
        BY <2>2
<1>3. /\ Len(send_queue[PrevRank(r)]) \in Nat /\ Len(control[r]) \in Nat
      /\ Len(recv_queue[r]) \in Nat
    BY <1>1, QueueTypes
<1>4. Received(r) \in Nat /\ RecvsPosted(r) \in Nat
    BY <1>1, LandedFacts
<1>5. \A l, d, w, p \in Nat :
         b + l <= a /\ a + d <= b + w /\ a + d = p =>
            /\ (p - w) + l \in Int /\ p - w <= (p - w) + l /\ (p - w) + l <= p
            /\ (p - w) + l <= p - d /\ p - d \in Nat
    OBVIOUS
<1>6. /\ Received(r) <= Coming(r) /\ Coming(r) <= RecvsPosted(r) /\ Coming(r) \in Int
      /\ Coming(r) <= Taken(r) /\ Taken(r) \in Nat
    BY <1>2, <1>3, <1>4, <1>5, Zenon DEF Coming, Received, Taken
<1> QED
    BY <1>4, <1>6

\* A rank has a tag for everything it is to receive.
LEMMA OwnTagged ==
    ASSUME AlignedInv, NEW r \in Ranks, Unfailed(r), pc[r] # "idle", Tagged(r),
           NEW j \in Nat, j <= RecvsPosted(r), NEW x \in Nat, x < PieceStart(r, j)
    PROVE  ~Beyond(r, x)
<1>1. RecvsPosted(r) \in Nat /\ kPieceMask + 1 \in Nat /\ RecvsPosted(r) <= kPieceMask + 1
    BY ComingFacts, MaskFacts DEF Tagged
<1>2. j <= kPieceMask + 1
    BY <1>1
<1>3. /\ PieceStart(r, j) <= PieceStart(r, kPieceMask + 1)
      /\ PieceStart(r, kPieceMask + 1) \in Nat /\ PieceStart(r, j) \in Nat
    BY <1>1, <1>2, PieceMonotone
<1> QED
    BY <1>3 DEF Beyond

\* The two values of the block a rank reduces.
LEMMA ReducedValue ==
    ASSUME NEW r \in Ranks, NEW st \in 0..(Size - 1), NEW c
    PROVE  /\ BlockValue(r, ReduceScatter, st, c, st + 1, FALSE) \in Seq(Ranks \X {c})
           /\ LET v == BlockValue(r, ReduceScatter, st, c, st + 1, TRUE) IN
              \A k \in 1..Len(v) : v[k][2] = c
<1>1. st + 1 \in 0..Size /\ ReduceScatter \in {ReduceScatter, AllGather}
    BY WorldAssumption DEF Size
<1>2. TRUE \in BOOLEAN /\ FALSE \in BOOLEAN
    OBVIOUS
<1> QED
    BY <1>1, <1>2, CallValue

\* One more piece of a step lands in workbuf, reduced or written by the peer.
LEMMA LandsFit ==
    ASSUME NEW r \in Ranks, NEW ph \in {ReduceScatter, AllGather}, NEW st \in 0..(Size - 1),
           NEW c, NEW m \in Nat, NEW n, n = m + 1, WorkbufAt(r, ph, st, c, m),
           WorkbufAt(r, ph, st, c, n)',
           AllFit(memory[r].workbuf, r), ph = ReduceScatter => Calls[c] = "valid",
           \A x \in 0..(BlockCount(Back(r, RecvIndex(ph, st))) - 1) :
              x < PieceStart(r, n) => ~Beyond(r, x) /\ Untied(Expected(r, ph, st, c), x)
    PROVE  AllFit(memory[r].workbuf, r)'
<1>1. ASSUME NEW block \in Ranks, NEW e \in BlockElements(block)
      PROVE  Fit(memory'[r].workbuf[e], r, e - BlockOffset(block))
    <2>1. PICK x, old, coming, new :
             /\ x = e - BlockOffset(block) /\ coming = Expected(r, ph, st, c)
             /\ old = memory[r].workbuf[e] /\ new = memory'[r].workbuf[e]
        OBVIOUS
    <2>2. Fit(old, r, x)
        BY <2>1 DEF AllFit
    <2>5. PICK i \in 0..Size : block = Back(r, i)
        BY BackCovers
    <2> DEFINE done == e < BlockOffset(block) + PieceStart(r, m)
               next == e < BlockOffset(block) + PieceStart(r, n)
    <2>6. old = BlockValue(r, ph, st, c, i, done) /\ new = BlockValue(r, ph, st, c, i, next)
        BY <2>1, <2>5 DEF WorkbufAt
    <2>7. done => next
        <3>1. n \in Nat /\ m <= n
            OBVIOUS
        <3>2. /\ PieceStart(r, m) \in Nat /\ PieceStart(r, n) \in Nat
              /\ PieceStart(r, m) <= PieceStart(r, n)
            BY <3>1, PieceMonotone
        <3> QED
            BY <3>2, ElementTypes
    <2>8. done \in BOOLEAN /\ next \in BOOLEAN
        OBVIOUS
    <2>3. CASE new = old
        BY <2>1, <2>2, <2>3
    <2>4. CASE /\ i = RecvIndex(ph, st) /\ e < BlockOffset(block) + PieceStart(r, n)
               /\ old = BlockValue(r, ph, st, c, i, FALSE)
               /\ new = BlockValue(r, ph, st, c, i, TRUE)
        <3>1. x \in 0..(BlockCount(block) - 1) /\ x < PieceStart(r, n)
            <4>1. n \in Nat
                OBVIOUS
            <4>2. PieceStart(r, n) \in Nat
                BY <4>1, PieceMonotone
            <4> QED
                BY <2>1, <2>4, <4>2, ElementTypes
        <3>2. ~Beyond(r, x) /\ Untied(Expected(r, ph, st, c), x)
            BY <2>1, <2>4, <2>5, <3>1
        <3>4. CASE ph = AllGather
            <4>1. ReduceScatter # AllGather
                BY DEF ReduceScatter, AllGather
            <4>2. new = coming
                BY <2>4, <2>1, <3>4, <4>1, ValueReceived DEF RecvIndex
            <4> QED
                BY <2>1, <3>2, <4>2 DEF Fit, Untied
        <3>5. CASE ph = ReduceScatter
            <4>1. st + 1 \in 0..Size /\ st + 1 \in 0..WorldSize /\ RecvIndex(ph, st) = st + 1
                BY <3>5, WorldAssumption DEF Size, RecvIndex
            <4>7. /\ old = BlockValue(r, ReduceScatter, st, c, st + 1, FALSE)
                  /\ new = BlockValue(r, ReduceScatter, st, c, st + 1, TRUE)
                  /\ coming = Expected(r, ReduceScatter, st, c)
                BY <2>4, <2>1, <3>5, <4>1
            <4>2. new = old \o coming
                BY <4>7, ValueReceived
            <4>3. old \in Seq(Ranks \X {c}) /\ \A k \in 1..Len(new) : new[k][2] = c
                BY <4>7, ReducedValue
            <4>4. coming \in Seq(Ranks \X {c})
                <5>1. Back(r, 1) \in Ranks
                    BY BackFacts, WorldAssumption
                <5> QED
                    BY <2>1, <3>5, <4>1, <5>1, RunType DEF Expected
            <4>5. Combinable(new)
                BY <3>5, <4>3 DEF Combinable
            <4>6. ASSUME NEW q \in Ranks, Beyond(q, x)
                  PROVE  q # r /\ Without(new, q)
                <5>1. q # r
                    BY <3>2, <4>6
                <5>2. Without(old, q) /\ Without(coming, q)
                    BY <2>2, <3>2, <2>1, <4>6, <5>1 DEF Fit, Untied
                <5> QED
                    BY <4>2, <4>3, <4>4, <5>1, <5>2, JoinedWithout
            <4> QED
                BY <2>1, <4>5, <4>6 DEF Fit
        <3> QED
            BY <3>4, <3>5
    <2> QED
        <3> HIDE DEF done, next
        <3>1. CASE done = next
            BY <2>3, <2>6, <3>1
        <3>2. CASE i # RecvIndex(ph, st)
            <4>1. BlockValue(r, ph, st, c, i, TRUE) = BlockValue(r, ph, st, c, i, FALSE)
                BY <3>2, ValueSteps, Zenon
            <4>2. new = old
                BY <2>6, <2>8, <4>1
            <4> QED
                BY <2>3, <4>2
        <3>3. CASE i = RecvIndex(ph, st) /\ done # next
            <4>1. done = FALSE /\ next = TRUE
                BY <2>7, <2>8, <3>3
            <4>2. e < BlockOffset(block) + PieceStart(r, n)
                BY <4>1 DEF next
            <4> QED
                BY <2>4, <2>6, <3>3, <4>1, <4>2
        <3> QED
            BY <3>1, <3>2, <3>3
<1> QED
    BY <1>1 DEF AllFit

-----------------------------------------------------------------------------
(* A step of the rank itself.                                                *)

\* A step that brings nothing new to a rank.
LEMMA ReachingKept ==
    ASSUME NEW r \in Ranks, Reaching(r), pc'[r] = pc[r], phase'[r] = phase[r],
           step'[r] = step[r], calls'[r] = calls[r],
           pc[r] # "idle" => Coming(r) \in Nat /\ Coming(r)' \in Nat /\ Coming(r)' <= Coming(r)
    PROVE  Reaching(r)'
<1> SUFFICES ASSUME pc[r] # "idle", NEW x \in 0..(BlockCount(RecvBlock(r)) - 1),
                    x < PieceStart(r, Coming(r)')
             PROVE  Untied(Expected(r, phase[r], step[r], calls[r]), x)
    BY DEF Reaching, RecvBlock
<1>1. PICK m \in Nat, n \in Nat : m = Coming(r)' /\ n = Coming(r) /\ m <= n
    OBVIOUS
<1>2. /\ PieceStart(r, m) \in Nat /\ PieceStart(r, n) \in Nat
      /\ PieceStart(r, m) <= PieceStart(r, n)
    BY <1>1, PieceMonotone
<1>3. x < PieceStart(r, n)
    BY <1>1, <1>2
<1> QED
    BY <1>1, <1>3 DEF Reaching

\* A step of the ring begins with nothing under way.
LEMMA NothingComing ==
    ASSUME NEW r \in Ranks, Coming(r)' = 0
    PROVE  Reaching(r)'
<1>1. \A x \in Nat : ~(x < PieceStart(r, 0))
    BY PieceMonotone
<1> QED
    BY <1>1 DEF Reaching

\* The last entry of the history.
LEMMA RecordsAppend ==
    ASSUME TypeInv, NEW r \in Ranks, RecordsFit(r), NEW entry,
           returned'[r] = Append(returned[r], entry), AllFit(entry.recvbuf, r)
    PROVE  RecordsFit(r)'
<1>1. PICK S : returned[r] \in Seq(S)
    BY DEF TypeInv, TypeOK, TypeOKProgram
<1>2. PICK n \in Nat : n = Len(returned[r])
    BY <1>1
<1>3. Len(returned'[r]) = n + 1 /\ returned'[r][n + 1] = entry
      /\ \A c \in 1..n : returned'[r][c] = returned[r][c]
    BY <1>1, <1>2
<1>4. ASSUME NEW c \in 1..(n + 1)
      PROVE  AllFit(returned'[r][c].recvbuf, r)
    <2>1. CASE c = n + 1
        BY <1>3, <2>1
    <2>2. CASE c # n + 1
        <3>1. c \in 1..n
            BY <2>2
        <3> QED
            BY <1>2, <1>3, <3>1 DEF RecordsFit
    <2> QED
        BY <2>1, <2>2
<1> QED
    BY <1>3, <1>4 DEF RecordsFit, AllFit

\* A rank's own contribution fits everywhere.
LEMMA OwnFit ==
    ASSUME NEW r \in Ranks, NEW c, NEW x
    PROVE  Fit(<<(<<r, c>>)>>, r, x)
<1>1. /\ Len(<<(<<r, c>>)>>) = 1 /\ \A i \in 1..1 : i = 1
      /\ <<(<<r, c>>)>>[1][1] = r
    OBVIOUS
<1> QED
    BY <1>1 DEF Fit, Without, Combinable

\* reduce_in_place combines what may be combined.
LEMMA ReducesFit ==
    ASSUME AlignedInv, NEW r \in Ranks, RunRank(r), Reduces(r), Tagged(r), Entered(r),
           Reaching(r), AllFit(memory[r].workbuf, r), WorkbufOK(r), WorkbufOK(r)'
    PROVE  AllFit(memory[r].workbuf, r)'
<1>1. PICK ph, st, c, m, n : /\ ph = phase[r] /\ st = step[r] /\ c = calls[r]
                             /\ m = Reduced(r) /\ n = Reduced(r) + 1
    OBVIOUS
<1>2. /\ PlacedInv /\ st \in 0..(Size - 1) /\ ph = ReduceScatter /\ pc[r] # "idle"
      /\ pc'[r] # "idle" /\ AboutToReduce(r) /\ RecvBlock(r) = Back(r, RecvIndex(ph, st))
      /\ phase'[r] = ph /\ step'[r] = st /\ calls'[r] = c /\ Reduced(r)' = n
    BY <1>1, DataFacts, OwnBlock DEF Reduces, AboutToReduce
<1>3. Unfailed(r) /\ m \in Nat /\ Received(r) \in Nat /\ n <= Received(r) /\ n = m + 1
    BY <1>1, <1>2, HeadPiece
<1>4. /\ n \in Nat /\ Coming(r) \in Nat /\ n <= Coming(r) /\ n <= RecvsPosted(r)
    <2>1. /\ Coming(r) \in Nat /\ RecvsPosted(r) \in Nat /\ Received(r) <= Coming(r)
          /\ Coming(r) <= RecvsPosted(r)
        BY <1>3, ComingFacts
    <2> QED
        BY <1>3, <2>1
<1>5. WorkbufAt(r, ph, st, c, m)
    BY <1>1, <1>2 DEF WorkbufOK, Landed
<1>6. WorkbufAt(r, ph, st, c, n)'
    BY <1>2 DEF WorkbufOK, WorkbufAt, Landed
<1>7. Calls[c] = "valid"
    BY <1>1, ReducesKnown DEF CallKind
<1>8. ASSUME NEW x \in 0..(BlockCount(RecvBlock(r)) - 1), x < PieceStart(r, n)
      PROVE  ~Beyond(r, x) /\ Untied(Expected(r, ph, st, c), x)
    <2>1. /\ PieceStart(r, n) \in Nat /\ PieceStart(r, Coming(r)) \in Nat
          /\ PieceStart(r, n) <= PieceStart(r, Coming(r))
        BY <1>4, PieceMonotone
    <2>2. x \in Nat /\ x < PieceStart(r, Coming(r))
        BY <1>8, <2>1
    <2>3. ~Beyond(r, x)
        BY <1>2, <1>3, <1>4, <1>8, <2>2, OwnTagged
    <2> QED
        BY <1>1, <1>2, <2>2, <2>3 DEF Reaching
<1> QED
    BY <1>2, <1>3, <1>5, <1>6, <1>7, <1>8, LandsFit

\* The rank that runs goes on serving.
LEMMA RunServes ==
    ASSUME DataInv, DataInv', ContinueAfterError = FALSE, NEW r \in Ranks, RunRank(r),
           Serves(r)
    PROVE  Serves(r)'
<1>1. /\ AlignedInv /\ TypeInv /\ HeldInv /\ LinkInv /\ WorkbufOK(r) /\ TypeOKMemory
    BY DataFacts DEF DataInv, Holds
<1>2. AlignedInv' /\ WorkbufOK(r)'
    BY DEF DataInv, Holds
<1>3. /\ Tagged(r) /\ Entered(r) /\ Reaching(r) /\ RecordsFit(r) /\ Unfailed(r)
      /\ AllFit(memory[r].workbuf, r)
    BY <1>1, RunnerUnfailed DEF Serves
<1>4. Tagged(r)' /\ Entered(r)'
    BY <1>1, <1>2, <1>3, RunTagged, RunEnters
<1>5. send_queue'[PrevRank(r)] = send_queue[PrevRank(r)]
    BY <1>1, Neighbours, RunOthers DEF VerbsOthers, SameRequests
<1>6. ASSUME Received(r)' = 0, send_queue[PrevRank(r)] = <<>>
      PROVE  Reaching(r)'
    <2>1. Coming(r)' = 0
        BY <1>5, <1>6 DEF Coming
    <2> QED
        BY <2>1, NothingComing
<1>7. ASSUME Quiet(r) \/ Reduces(r)
      PROVE  Reaching(r)' /\ RecordsFit(r)'
    <2>1. /\ pc[r] # "idle" /\ pc'[r] # "idle" /\ phase'[r] = phase[r]
          /\ step'[r] = step[r] /\ calls'[r] = calls[r] /\ returned'[r] = returned[r]
          /\ Received(r)' = Received(r)
        BY <1>7 DEF Quiet, Reduces
    <2>2. Coming(r)' = Coming(r)
        BY <1>5, <2>1 DEF Coming
    <2>3. Reaching(r)'
        BY <1>3, <2>1, <2>2 DEF Reaching, RecvBlock
    <2> QED
        BY <1>3, <2>1, <2>3 DEF RecordsFit
<1>8. ASSUME Begins(r) \/ GoesOn(r)
      PROVE  Reaching(r)' /\ RecordsFit(r)'
    <2>1. Received(r)' = 0 /\ Empty(r) /\ returned'[r] = returned[r]
        BY <1>8 DEF Begins, GoesOn, Completes
    <2>2. send_queue[PrevRank(r)] = <<>>
        BY <1>1, <1>3, <2>1, NothingHeld DEF Empty
    <2> QED
        BY <1>3, <1>6, <2>1, <2>2 DEF RecordsFit
<1>9. ASSUME Succeeds(r) \/ Failing(r)
      PROVE  Reaching(r)' /\ RecordsFit(r)' /\ memory' = memory
    <2>1. PICK status :
             returned'[r] = Append(returned[r], [status  |-> status,
                                                 recvbuf |-> memory[r].workbuf])
        BY <1>9 DEF Succeeds, Failing
    <2>2. RecordsFit(r)'
        <3> DEFINE entry == [status |-> status, recvbuf |-> memory[r].workbuf]
        <3>1. returned'[r] = Append(returned[r], entry) /\ AllFit(entry.recvbuf, r)
            BY <1>3, <2>1
        <3> HIDE DEF entry
        <3> QED
            BY <1>1, <1>3, <3>1, RecordsAppend
    <2> QED
        BY <1>9, <2>2 DEF Succeeds, Failing, Reaching
<1>10. AllFit(memory[r].workbuf, r)'
    <2>1. CASE memory' = memory
        BY <1>3, <2>1 DEF AllFit
    <2>2. CASE Reduces(r)
        BY <1>1, <1>2, <1>3, <2>2, ReducesFit
    <2>3. CASE Begins(r)
        <3>1. PICK c : c = calls[r] + 1
            OBVIOUS
        <3>2. \A e \in Elements("workbuf") : memory'[r].workbuf[e] = <<(<<r, c>>)>>
            BY <1>1, <2>3, <3>1 DEF Begins, TypeOKMemory
        <3>3. \A block \in Ranks : \A e \in BlockElements(block) :
                 Fit(memory'[r].workbuf[e], r, e - BlockOffset(block))
            BY <3>2, ElementTypes, OwnFit
        <3> QED
            BY <3>3 DEF AllFit
    <2> QED
        BY <1>1, <2>1, <2>2, <2>3, RunCourse
           DEF Course, Quiet, GoesOn, Succeeds, Failing
<1>11. Reaching(r)' /\ RecordsFit(r)'
    BY <1>1, <1>7, <1>8, <1>9, RunCourse DEF Course
<1> QED
    BY <1>4, <1>10, <1>11 DEF Serves

-----------------------------------------------------------------------------
(* A step of another rank.                                                   *)

\* The element at a place of a block.
LEMMA ElementAt ==
    ASSUME NEW block \in Ranks, NEW x \in Nat, x < BlockCount(block)
    PROVE  \E e \in BlockElements(block) : x = e - BlockOffset(block)
<1>1. /\ BlockOffset(block) \in Nat /\ BlockCount(block) \in Nat
      /\ BlockOffset(block) + BlockCount(block) <= Count
    BY BlockBounds
<1>2. PICK e \in Nat : e = BlockOffset(block) + x
    BY <1>1
<1>3. e \in BlockElements(block)
    BY <1>1, <1>2, CountAssumption DEF BlockElements, Elements, BufferLength
<1>4. x = e - BlockOffset(block)
    BY <1>1, <1>2
<1> QED
    BY <1>3, <1>4

\* Ranks that cut the first piece alike cut where it matters alike.
LEMMA LikeReaches ==
    ASSUME NEW s \in Ranks, NEW block \in Ranks, Like(s, block), NEW j \in Nat,
           NEW x \in 0..(BlockCount(block) - 1), x < PieceStart(NextRank(s), j + 1)
    PROVE  x < PieceStart(s, j + 1)
<1>1. PICK p \in Nat \ {0}, o \in Nat \ {0}, n \in Nat :
         /\ p = piece_elements(s) /\ o = piece_elements(NextRank(s)) /\ n = BlockCount(block)
    BY Neighbours, BlockBounds, ConfigTypes
<1>2. LeastOf(p, n) = LeastOf(o, n)
    BY <1>1 DEF Like
<1>3. CASE p = o
    BY <1>1, <1>3 DEF PieceStart
<1>4. CASE p # o
    <2>1. n <= p
        BY <1>2, <1>4 DEF LeastOf
    <2>2. (j + 1) * p = j * p + p /\ j * p \in Nat
        OBVIOUS
    <2>3. x < (j + 1) * p
        BY <1>1, <2>1, <2>2
    <2> QED
        BY <1>1, <2>3 DEF PieceStart
<1> QED
    BY <1>3, <1>4

\* A piece that leaves a rank has a tag there, and left nothing untied behind.
LEMMA SendReaches ==
    ASSUME DataInv, ContinueAfterError = FALSE, NEW s \in Ranks, RunRank(s), Sends(s),
           Serves(s), NEW d, d = NextRank(s), Unfailed(d), pc[d] # "idle"
    PROVE  Reaching(d)'
<1>1. /\ AlignedInv /\ TypeInv /\ LinkInv /\ Located(s) /\ WorkbufOK(s)
      /\ d \in Ranks \ {s} /\ PrevRank(d) = s /\ SendBlock(s) \in Ranks
    BY DataFacts, Neighbours DEF DataInv, Holds
<1>2. Unfailed(s) /\ AllFit(memory[s].workbuf, s)
    BY <1>1, RunnerUnfailed DEF Serves
<1>3. PICK j, value : /\ j = SendsPosted(s)
                      /\ value = Expected(d, phase[d], step[d], calls[d])
    OBVIOUS
<1>4. /\ SendBlock(s) = RecvBlock(d) /\ j = Taken(d) /\ Like(s, SendBlock(s))
    BY <1>1, <1>2, <1>3, SameStepSent
<1>5. /\ Coming(d) \in Nat /\ j \in Nat /\ Coming(d) <= j
    BY <1>1, <1>4, ComingFacts
<1>6. Coming(d)' = Coming(d) + 1
    <2>1. Received(d)' = Received(d)
        BY <1>1, RunPosition DEF SamePosition, Received
    <2>2. Len(send_queue'[s]) = Len(send_queue[s]) + 1 /\ Len(send_queue[s]) \in Nat
        <3>1. PICK send \in SendWrs : send_queue' = [send_queue EXCEPT ![s] = Append(@, send)]
            BY DEF Sends
        <3>2. send_queue[s] \in Seq(SendWrs) /\ send_queue'[s] = Append(send_queue[s], send)
            BY <1>1, <3>1 DEF TypeInv, TypeOK, TypeOKVerbs
        <3> QED
            BY <3>2
    <2>3. Received(d) \in Nat
        BY <1>1, ComingFacts
    <2>4. \A a, l \in Nat : a + (l + 1) = (a + l) + 1
        OBVIOUS
    <2>5. Coming(d)' = Received(d)' + Len(send_queue'[s])
        BY <1>1 DEF Coming
    <2>6. Coming(d) = Received(d) + Len(send_queue[s])
        BY <1>1 DEF Coming
    <2> QED
        BY <2>1, <2>2, <2>3, <2>4, <2>5, <2>6, Zenon
<1>7. j + 1 <= kPieceMask + 1 /\ kPieceMask + 1 \in Nat
    BY <1>1, <1>3, SendsTagged, MaskFacts
<1>8. ASSUME NEW x \in 0..(BlockCount(RecvBlock(d)) - 1), x < PieceStart(d, Coming(d)')
      PROVE  Untied(value, x)
    <2>1. PICK m \in Nat, k \in Nat, b \in Ranks :
             /\ m = Coming(d)' /\ k = j + 1 /\ m <= k /\ b = RecvBlock(d)
        BY <1>1, <1>4, <1>5, <1>6
    <2>2. x < PieceStart(d, j + 1) /\ x \in Nat
        <3>1. /\ PieceStart(d, m) \in Nat /\ PieceStart(d, k) \in Nat
              /\ PieceStart(d, m) <= PieceStart(d, k)
            BY <1>1, <2>1, PieceMonotone
        <3>2. x < PieceStart(d, m) /\ x \in Nat
            BY <1>8, <2>1
        <3> QED
            BY <2>1, <3>1, <3>2
    <2>3. x < PieceStart(s, k)
        BY <1>1, <1>4, <1>5, <2>1, <2>2, LikeReaches
    <2>4. ~Beyond(s, x)
        <3>1. /\ PieceStart(s, k) \in Nat /\ PieceStart(s, kPieceMask + 1) \in Nat
              /\ PieceStart(s, k) <= PieceStart(s, kPieceMask + 1)
            BY <1>7, <2>1, PieceMonotone
        <3> QED
            BY <2>2, <2>3, <3>1 DEF Beyond
    <2>5. PICK e \in BlockElements(b) : x = e - BlockOffset(b)
        <3>1. x < BlockCount(b)
            BY <1>8, <2>1, <2>2, BlockBounds
        <3> QED
            BY <2>2, <3>1, ElementAt
    <2>6. memory[s].workbuf[e] = value
        BY <1>1, <1>2, <1>3, <1>4, <2>1, SentBlock
    <2>7. Fit(value, s, x)
        BY <1>2, <2>5, <2>6 DEF AllFit
    <2> QED
        BY <2>4, <2>7 DEF Fit, Untied
<1>9. /\ phase'[d] = phase[d] /\ step'[d] = step[d] /\ calls'[d] = calls[d]
    BY <1>1, RunOthers DEF ProgramOthers
<1> QED
    BY <1>3, <1>8, <1>9 DEF Reaching, RecvBlock

\* So do the others.
LEMMA OthersServe ==
    ASSUME DataInv, ContinueAfterError = FALSE, NEW r \in Ranks, RunRank(r), Serves(r),
           NEW q \in Ranks \ {r}, Serves(q)
    PROVE  Serves(q)'
<1>1. AlignedInv /\ TypeInv /\ HeldInv /\ Located(r) /\ FailedStaysOut(q)
    BY DataFacts DEF DataInv
<1>2. /\ pc'[q] = pc[q] /\ phase'[q] = phase[q] /\ step'[q] = step[q]
      /\ calls'[q] = calls[q] /\ returned'[q] = returned[q] /\ memory'[q] = memory[q]
      /\ recv_queue'[q] = recv_queue[q]
    BY <1>1, RunOthers DEF ProgramOthers, VerbsOthers, SameRequests
<1>3. RecvsPosted(q)' = RecvsPosted(q) /\ SendsPosted(q)' = SendsPosted(q)
    BY <1>1, RunPosition DEF SamePosition
<1>4. /\ Tagged(q)' /\ Entered(q)' /\ RecordsFit(q)'
      /\ (Unfailed(q) => AllFit(memory[q].workbuf, q))'
    BY <1>2, <1>3
       DEF Serves, Tagged, Entered, CallKind, RecordsFit, AllFit, Unfailed, LastStatus
<1>5. Reaching(q)'
    <2>1. CASE pc[q] = "idle"
        BY <1>2, <2>1 DEF Reaching
    <2>2. CASE pc[q] # "idle" /\ send_queue'[PrevRank(q)] = send_queue[PrevRank(q)]
        <3>1. Coming(q)' = Coming(q)
            BY <1>2, <1>3, <2>2 DEF Coming, Received
        <3> QED
            BY <1>2, <3>1 DEF Serves, Reaching, RecvBlock
    <2>3. CASE pc[q] # "idle" /\ q = NextRank(r) /\ Sends(r)
        <3>1. Unfailed(q)
            BY <1>1, <2>3 DEF FailedStaysOut
        <3> QED
            BY <2>3, <3>1, SendReaches
    <2>4. \/ send_queue' = send_queue
          \/ Sends(r) /\ \A s \in Ranks \ {r} : send_queue'[s] = send_queue[s]
        <3>1. \A s \in Ranks \ {r} : send_queue'[s] = send_queue[s]
            BY <1>1, RunOthers DEF VerbsOthers, SameRequests
        <3>2. Sends(r) \/ send_queue' = send_queue
            BY <1>1, RunEffects DEF Stays, Receives, Consumes, Advances, GivesUp, QueuesKept
        <3> QED
            BY <3>1, <3>2
    <2> QED
        BY <2>1, <2>2, <2>3, <2>4, Neighbours
<1> QED
    BY <1>4, <1>5 DEF Serves

-----------------------------------------------------------------------------
(* A step of the fabric.                                                     *)

\* A piece delivered to a rank that reduces lands apart from the block.
LEMMA DeliveryApart ==
    ASSUME AlignedInv, NEW s \in Ranks, Opcoded(s), Deliver(s), NEW d, d = NextRank(s),
           Unfailed(d), phase[d] = ReduceScatter
    PROVE  memory'[d].workbuf = memory[d].workbuf
<1>1. d \in Ranks /\ TypeOKMemory
    BY Neighbours, DataFacts
<1>2. PICK region, data : region = Destination(s) /\ data = Contents(s, Origin(s))
    OBVIOUS
<1>3. /\ region \in Regions /\ memory' = Stored(d, region, data)
      /\ DOMAIN data = 0..(region.length - 1)
    BY <1>1, <1>2, DeliveryFacts
<1>4. region.buffer = "temporary_buffer"
    BY <1>2, DeliveredPiece DEF Landing, Region
<1> QED
    BY <1>1, <1>3, <1>4, StoredValues

\* No piece is under way to a rank between its calls.
LEMMA IdleUnreached ==
    ASSUME AlignedInv, NEW s \in Ranks, Opcoded(s), Deliver(s), NEW d, d = NextRank(s),
           Unfailed(d)
    PROVE  pc[d] # "idle"
<1> SUFFICES ASSUME pc[d] = "idle" PROVE FALSE
    OBVIOUS
<1>1. d \in Ranks /\ TypeInv /\ HeldInv
    BY Neighbours, DataFacts
<1>2. Empty(d)
    BY <1>1 DEF Empty, TypeInv, RecvsInBlock, HeldInv, HeldAt, InBatch
<1>3. recv_queue[d] = <<>>
    BY <1>1, <1>2, NothingHeld DEF Empty
<1>4. recv_queue[d] # <<>>
    BY <1>1, DeliveryFacts
<1> QED
    BY <1>3, <1>4

\* So does the rank a piece reaches.
LEMMA DeliveryServes ==
    ASSUME DataInv, DataInv', NEW s \in Ranks, Deliver(s), UNCHANGED program_vars,
           NEW d, d = NextRank(s), Unfailed(d), Tagged(d), Reaching(d),
           AllFit(memory[d].workbuf, d)
    PROVE  AllFit(memory[d].workbuf, d)' /\ Reaching(d)'
<1>1. /\ AlignedInv /\ PlacedInv /\ Opcoded(s) /\ d \in Ranks /\ PrevRank(d) = s
      /\ WorkbufOK(d) /\ WorkbufOK(d)'
    BY DataFacts, Neighbours DEF DataInv, Holds
<1>2. pc[d] # "idle" /\ pc' = pc /\ phase' = phase /\ step' = step /\ calls' = calls
    BY <1>1, IdleUnreached DEF program_vars
<1>3. PICK ph, st, c, m, n : /\ ph = phase[d] /\ st = step[d] /\ c = calls[d]
                             /\ m = Received(d) /\ n = Received(d) + 1
    OBVIOUS
<1>4. /\ ph \in {ReduceScatter, AllGather} /\ st \in 0..(Size - 1) /\ m \in Nat
      /\ n \in Nat /\ n = m + 1 /\ Received(d)' = n /\ RecvBlock(d) = Back(d, RecvIndex(ph, st))
    BY <1>1, <1>2, <1>3, DataFacts, LandedFacts, DeliveredCounts, OwnBlock
<1>5. PICK l \in Nat : Len(send_queue[s]) = l + 1 /\ Len(send_queue'[s]) = l
    <2>1. /\ send_queue[s] # <<>> /\ send_queue[s] \in Seq(SendWrs)
          /\ send_queue'[s] = Tail(send_queue[s])
        BY <1>1, DeliveryFacts
    <2>2. Len(Tail(send_queue[s])) \in Nat /\ Len(send_queue[s]) = Len(Tail(send_queue[s])) + 1
        BY <2>1
    <2> QED
        BY <2>1, <2>2
<1>6. Coming(d)' = Coming(d) /\ n <= Coming(d)
    <2>1. Coming(d) = m + (l + 1) /\ Coming(d)' = n + l
        BY <1>1, <1>3, <1>4, <1>5 DEF Coming
    <2>2. m + (l + 1) = (m + 1) + l /\ m + 1 <= m + (l + 1)
        BY <1>4
    <2> QED
        BY <1>4, <2>1, <2>2
<1>7. /\ Coming(d) \in Nat /\ RecvsPosted(d) \in Nat /\ Coming(d) <= RecvsPosted(d)
    BY <1>1, ComingFacts
<1>8. Reaching(d)'
    BY <1>2, <1>6 DEF Reaching, RecvBlock
<1>9. CASE ph = ReduceScatter
    <2>1. memory'[d].workbuf = memory[d].workbuf
        BY <1>1, <1>3, <1>9, DeliveryApart
    <2> QED
        BY <1>8, <2>1 DEF AllFit
<1>10. CASE ph = AllGather
    <2>1. ReduceScatter # AllGather
        BY DEF ReduceScatter, AllGather
    <2>2. WorkbufAt(d, ph, st, c, m)
        BY <1>1, <1>2, <1>3, <1>10, <2>1 DEF WorkbufOK, Landed
    <2>3. WorkbufAt(d, ph, st, c, n)'
        <3>1. /\ pc'[d] # "idle" /\ phase'[d] = ph /\ step'[d] = st /\ calls'[d] = c
              /\ Landed(d)' = n
            BY <1>2, <1>3, <1>4, <1>10, <2>1 DEF Landed
        <3> QED
            BY <1>1, <3>1 DEF WorkbufOK, WorkbufAt
    <2>4. ASSUME NEW x \in 0..(BlockCount(RecvBlock(d)) - 1), x < PieceStart(d, n)
          PROVE  ~Beyond(d, x) /\ Untied(Expected(d, ph, st, c), x)
        <3>1. /\ PieceStart(d, n) \in Nat /\ PieceStart(d, Coming(d)) \in Nat
              /\ PieceStart(d, n) <= PieceStart(d, Coming(d))
            BY <1>1, <1>4, <1>6, <1>7, PieceMonotone
        <3>2. x \in Nat /\ x < PieceStart(d, Coming(d))
            BY <2>4, <3>1
        <3>3. n <= RecvsPosted(d)
            BY <1>4, <1>6, <1>7
        <3>4. ~Beyond(d, x)
            BY <1>1, <1>2, <1>4, <2>4, <3>2, <3>3, OwnTagged
        <3> QED
            BY <1>2, <1>3, <3>2, <3>4 DEF Reaching
    <2>5. ph = ReduceScatter => Calls[c] = "valid"
        BY <1>10, <2>1
    <2>6. AllFit(memory[d].workbuf, d)'
        BY <1>1, <1>4, <2>2, <2>3, <2>4, <2>5, LandsFit
    <2> QED
        BY <1>8, <2>6
<1> QED
    BY <1>4, <1>8, <1>9, <1>10

\* And every other rank, whatever the fabric does.
LEMMA FabricServes ==
    ASSUME DataInv, DataInv', NEW s \in Ranks, Fabric(s), NEW q \in Ranks, Serves(q)
    PROVE  Serves(q)'
<1>1. /\ AlignedInv /\ TypeInv /\ TypeOKVerbs /\ Opcoded(s) /\ UNCHANGED program_vars
      /\ FailedStaysOut(q) /\ PrevRank(q) \in Ranks
    BY DataFacts, Neighbours DEF DataInv, Holds, Fabric
<1>2. /\ pc' = pc /\ phase' = phase /\ step' = step /\ calls' = calls
      /\ returned' = returned
    BY <1>1 DEF program_vars
<1>3. RecvsPosted(q)' = RecvsPosted(q) /\ SendsPosted(q)' = SendsPosted(q)
    BY <1>1 DEF program_vars, RecvsPosted, SendsPosted, BeginPiece, EndPiece, RecvPieces,
                SendPieces, RecvBlock, SendBlock
<1>4. /\ Tagged(q)' /\ Entered(q)' /\ RecordsFit(q)' /\ (Unfailed(q)' <=> Unfailed(q))
    BY <1>2, <1>3
       DEF Serves, Tagged, Entered, CallKind, RecordsFit, AllFit, Unfailed, LastStatus
<1>5. ASSUME memory'[q] = memory[q], recv_queue'[q] = recv_queue[q],
             \/ send_queue'[PrevRank(q)] = send_queue[PrevRank(q)]
             \/ /\ send_queue[PrevRank(q)] # <<>>
                /\ send_queue'[PrevRank(q)] = Tail(send_queue[PrevRank(q)])
      PROVE  Serves(q)'
    <2>1. Received(q)' = Received(q)
        BY <1>3, <1>5 DEF Received
    <2>2. ASSUME pc[q] # "idle"
          PROVE  Coming(q) \in Nat /\ Coming(q)' \in Nat /\ Coming(q)' <= Coming(q)
        <3>1. Unfailed(q)
            BY <1>1, <2>2 DEF FailedStaysOut
        <3>2. Received(q) \in Nat
            BY <1>1, <3>1, ComingFacts
        <3>3. PICK n \in Nat, l \in Nat :
                 n = Len(send_queue[PrevRank(q)]) /\ l = Len(send_queue'[PrevRank(q)]) /\ l <= n
            <4>1. send_queue[PrevRank(q)] \in Seq(SendWrs)
                BY <1>1 DEF TypeOKVerbs
            <4>2. CASE send_queue'[PrevRank(q)] = send_queue[PrevRank(q)]
                BY <4>1, <4>2
            <4>3. CASE /\ send_queue[PrevRank(q)] # <<>>
                       /\ send_queue'[PrevRank(q)] = Tail(send_queue[PrevRank(q)])
                <5>1. PICK old \in Seq(SendWrs) : old = send_queue[PrevRank(q)]
                    BY <4>1
                <5>2. Len(old) \in Nat /\ Len(Tail(old)) \in Nat /\ Len(Tail(old)) <= Len(old)
                    BY <4>3, <5>1
                <5> QED
                    BY <4>3, <5>1, <5>2
            <4> QED
                BY <1>5, <4>2, <4>3
        <3>4. Coming(q) = Received(q) + n /\ Coming(q)' = Received(q) + l
            BY <2>1, <3>3 DEF Coming
        <3> QED
            BY <3>2, <3>3, <3>4
    <2>3. Reaching(q)'
        BY <1>2, <2>2, ReachingKept DEF Serves
    <2>4. (Unfailed(q) => AllFit(memory[q].workbuf, q))'
        BY <1>4, <1>5 DEF Serves, AllFit
    <2> QED
        BY <1>4, <2>3, <2>4 DEF Serves
<1>6. CASE Deliver(s) /\ q # NextRank(s)
    <2>1. memory'[q] = memory[q] /\ recv_queue'[q] = recv_queue[q]
        BY <1>1, <1>6, DeliveryFacts
    <2>2. PrevRank(q) # s
        BY <1>6, Neighbours
    <2>3. send_queue'[PrevRank(q)] = send_queue[PrevRank(q)]
        BY <1>1, <1>6, <2>2, DeliveryFacts
    <2> QED
        BY <1>5, <2>1, <2>3
<1>7. CASE Deliver(s) /\ q = NextRank(s)
    <2>1. CASE Unfailed(q)
        <3>1. AllFit(memory[q].workbuf, q)' /\ Reaching(q)'
            BY <1>1, <1>7, <2>1, DeliveryServes DEF Serves
        <3> QED
            BY <1>4, <3>1 DEF Serves
    <2>2. CASE ~Unfailed(q)
        <3>1. pc'[q] = "idle"
            BY <1>1, <1>2, <2>2 DEF FailedStaysOut
        <3> QED
            BY <1>4, <2>2, <3>1 DEF Serves, Reaching
    <2> QED
        BY <2>1, <2>2
<1>8. CASE ~Deliver(s)
    <2>1. recv_queue' = recv_queue /\ memory' = memory
        BY <1>8 DEF Fabric, Acknowledge, BreakLink, FlushSend
    <2>2. \/ send_queue' = send_queue
          \/ /\ send_queue[s] # <<>> /\ send_queue'[s] = Tail(send_queue[s])
             /\ \A p \in Ranks \ {s} : send_queue'[p] = send_queue[p]
        <3>1. CASE FlushSend(s)
            <4>1. CASE unacknowledged[s] # <<>>
                BY <3>1, <4>1 DEF FlushSend
            <4>2. CASE unacknowledged[s] = <<>>
                <5>1. /\ <<>> \o send_queue[s] # <<>>
                      /\ send_queue' = [send_queue EXCEPT ![s] = Tail(@)]
                    BY <3>1, <4>2 DEF FlushSend
                <5>2. send_queue[s] # <<>>
                    BY <5>1
                <5> QED
                    BY <1>1, <5>1, <5>2 DEF TypeOKVerbs
            <4> QED
                BY <4>1, <4>2
        <3> QED
            BY <1>8, <3>1 DEF Fabric, Acknowledge, BreakLink
    <2> QED
        BY <1>1, <1>5, <2>1, <2>2
<1> QED
    BY <1>6, <1>7, <1>8

-----------------------------------------------------------------------------
(* The invariant, and what it says of a call that succeeds.                  *)

\* The invariant holds at first.
LEMMA InitServed == Init => ServedInv
<1> SUFFICES ASSUME Init PROVE ServedInv
    OBVIOUS
<1>1. DataInv
    BY InitData
<1>2. ASSUME NEW r \in Ranks PROVE Serves(r)
    <2>1. pc[r] = "idle" /\ returned[r] = <<>>
        BY DEF Init, InitProgram
    <2>2. Tagged(r) /\ Entered(r) /\ Reaching(r) /\ RecordsFit(r)
        BY <2>1 DEF Tagged, Entered, Reaching, RecordsFit
    <2>3. \A e \in Elements("workbuf") : memory[r].workbuf[e] = <<>>
        BY DEF Init, InitMemory
    <2>4. \A x, q : Fit(<<>>, q, x)
        BY DEF Fit, Without, Combinable
    <2>5. AllFit(memory[r].workbuf, r)
        BY <2>3, <2>4, ElementTypes DEF AllFit
    <2> QED
        BY <2>2, <2>5 DEF Serves
<1> QED
    BY <1>1, <1>2 DEF ServedInv

\* Every step keeps it.
LEMMA NextServed ==
    ASSUME ContinueAfterError = FALSE
    PROVE  ServedInv /\ [Next]_vars => ServedInv'
<1> SUFFICES ASSUME ServedInv, [Next]_vars PROVE ServedInv'
    OBVIOUS
<1>1. DataInv /\ \A q \in Ranks : Serves(q)
    BY DEF ServedInv
<1>2. DataInv'
    BY <1>1, NextData
<1>3. ASSUME NEW r \in Ranks, RunRank(r) PROVE \A q \in Ranks : Serves(q)'
    BY <1>1, <1>2, <1>3, RunServes, OthersServe
<1>4. ASSUME NEW s \in Ranks, Fabric(s) PROVE \A q \in Ranks : Serves(q)'
    BY <1>1, <1>2, <1>4, FabricServes
<1>5. ASSUME UNCHANGED vars, NEW q \in Ranks PROVE Serves(q)'
    <2>1. UNCHANGED program_vars /\ memory' = memory /\ UNCHANGED verbs_vars
        BY <1>5 DEF vars
    <2>2. RecvsPosted(q)' = RecvsPosted(q) /\ SendsPosted(q)' = SendsPosted(q)
        BY <2>1 DEF program_vars, RecvsPosted, SendsPosted, BeginPiece, EndPiece, RecvPieces,
                    SendPieces, RecvBlock, SendBlock
    <2>3. Tagged(q)' /\ Entered(q)' /\ RecordsFit(q)'
        BY <1>1, <2>1, <2>2
           DEF Serves, Tagged, Entered, CallKind, RecordsFit, AllFit, program_vars
    <2>4. (Unfailed(q) => AllFit(memory[q].workbuf, q))'
        BY <1>1, <2>1 DEF Serves, AllFit, Unfailed, LastStatus, program_vars
    <2>5. Coming(q)' = Coming(q)
        BY <2>1, <2>2 DEF Coming, Received, verbs_vars
    <2>6. Reaching(q)'
        BY <1>1, <2>1, <2>5 DEF Serves, Reaching, RecvBlock, program_vars
    <2> QED
        BY <2>3, <2>4, <2>6 DEF Serves
<1>6. \A q \in Ranks : Serves(q)'
    BY <1>3, <1>4, <1>5 DEF Next, Finished
<1> QED
    BY <1>2, <1>6 DEF ServedInv

\* Whoever succeeds holds what every rank contributed, in every element.
LEMMA SuccessCombines ==
    ASSUME ServedInv, NEW r \in Ranks, NEW c \in 1..Len(returned[r]),
           returned[r][c].status = PG_SUCCESS, NEW block \in Ranks, NEW e \in BlockElements(block)
    PROVE  /\ Combines(returned[r][c].recvbuf[e], c)
           /\ Fit(returned[r][c].recvbuf[e], r, e - BlockOffset(block))
<1>1. returned[r][c].recvbuf[e] = Final(block, c)
    BY DEF ServedInv, DataInv, Holds, Recorded
<1>2. AllFit(returned[r][c].recvbuf, r)
    BY DEF ServedInv, Serves, RecordsFit
<1> QED
    BY <1>1, <1>2, FinalCombines DEF AllFit

\* A call that some rank cannot serve returns PG_SUCCESS nowhere, even where it
\* comes to light only in the middle of the ring: a tag out of range
\* (ring_collectives.cpp:194, 231, 347, 381) or an operation reduce_in_place does
\* not know (261; VerbsRing!UnservableCallsFail).
THEOREM UnservableNeverSucceed ==
    ASSUME ContinueAfterError = FALSE
    PROVE  Spec => []UnservableCallsFail
<1>1. ASSUME ServedInv PROVE UnservableCallsFail
    <2> SUFFICES ASSUME NEW r \in Ranks, NEW c \in 1..Len(returned[r]),
                        returned[r][c].status = PG_SUCCESS
                 PROVE  Servable(c)
        BY DEF UnservableCallsFail
    <2>1. WorldSize \in Nat /\ WorldSize > 1
        BY WorldAssumption
    <2>2. Calls[c] = "valid"
        <3>1. 0 \in Elements("workbuf")
            BY CountAssumption DEF Elements, BufferLength
        <3>2. PICK block \in Ranks : 0 \in BlockElements(block)
            BY <3>1, ElementInBlock
        <3>3. PICK value : value = returned[r][c].recvbuf[0]
            OBVIOUS
        <3>4. Combines(value, c) /\ Combinable(value)
            BY <1>1, <3>2, <3>3, SuccessCombines DEF Fit
        <3>5. PICK i \in 1..Len(value) : value[i] = <<r, c>>
            BY <3>4 DEF Combines
        <3>6. Len(value) > 1
            BY <2>1, <3>4 DEF Combines
        <3> QED
            BY <3>4, <3>5, <3>6 DEF Combinable
    <2>3. ASSUME NEW q \in Ranks, NEW block \in Ranks
          PROVE  Pieces(q, block) <= kPieceMask + 1
        <3> SUFFICES ASSUME ~(Pieces(q, block) <= kPieceMask + 1) PROVE FALSE
            OBVIOUS
        <3>1. PICK j \in Nat : j = kPieceMask + 1
            BY MaskFacts
        <3>2. j < Pieces(q, block)
            BY <3>1, PiecesType
        <3>3. PICK x \in Nat : x = PieceStart(q, j) /\ x < BlockCount(block)
            <4>1. /\ PieceStart(q, j) \in Nat /\ CutLength(q, block, j) \in Nat \ {0}
                  /\ PieceStart(q, j) + CutLength(q, block, j) <= BlockCount(block)
                BY <3>2, SentPiece
            <4>2. BlockCount(block) \in Nat
                BY BlockBounds
            <4> QED
                BY <4>1, <4>2
        <3>4. PICK e \in BlockElements(block) : x = e - BlockOffset(block)
            BY <3>3, ElementAt
        <3>5. PICK value : value = returned[r][c].recvbuf[e]
            OBVIOUS
        <3>6. Combines(value, c) /\ Fit(value, r, x)
            BY <1>1, <3>4, <3>5, SuccessCombines
        <3>7. Beyond(q, x)
            BY <3>1, <3>3 DEF Beyond
        <3>8. CASE q # r
            <4>1. Without(value, q)
                BY <3>6, <3>7, <3>8 DEF Fit
            <4>2. PICK i \in 1..Len(value) : value[i] = <<q, c>>
                BY <3>6 DEF Combines
            <4> QED
                BY <4>1, <4>2 DEF Without
        <3>9. CASE q = r
            <4>1. \A i \in 1..Len(value) : value[i][1] = r
                BY <3>6, <3>7, <3>9 DEF Fit
            <4>2. PICK p \in Ranks : p # r
                BY <2>1 DEF Ranks
            <4>3. PICK i \in 1..Len(value) : value[i] = <<p, c>>
                BY <3>6 DEF Combines
            <4> QED
                BY <4>1, <4>2, <4>3
        <3> QED
            BY <3>8, <3>9
    <2> QED
        BY <2>2, <2>3 DEF Servable, Pieces
<1> QED
    BY <1>1, InitServed, NextServed, PTL DEF Spec

=============================================================================
