------------------------- MODULE RingScheduleProofs -------------------------
(* Facts about the arithmetic of RingSchedule, for every value of its        *)
(* arguments.  The proofs about the modules built on it cite them.           *)
EXTENDS RingSchedule, TLAPS

LEMMA DivMod ==
    ASSUME NEW a \in Nat, NEW n \in Nat, n > 0
    PROVE  /\ a \div n \in Nat
           /\ a % n \in 0..(n - 1)
           /\ a = n * (a \div n) + (a % n)
BY SMT

LEMMA ProductInNat ==
    ASSUME NEW a \in Nat, NEW b \in Nat
    PROVE  a * b \in Nat
BY SMT

LEMMA ProductMonotonic ==
    ASSUME NEW a \in Nat, NEW b \in Nat, NEW c \in Nat, a <= b
    PROVE  a * c <= b * c
<1>1. PICK d \in Nat : b = a + d
    BY a <= b, b = a + (b - a)
<1>2. b * c = a * c + d * c
    BY <1>1, SMT
<1> QED
    BY <1>2, ProductInNat

-----------------------------------------------------------------------------
(* Blocks.                                                                   *)

LEMMA LayoutTypes ==
    ASSUME NEW count \in Nat, NEW size \in Nat, size > 0, NEW block \in Nat
    PROVE  /\ layout_count(count, size, block) \in Nat
           /\ layout_offset(count, size, block) \in Nat
BY DivMod, ProductInNat DEF layout_offset, layout_count, LeastOf

LEMMA OffsetStep ==
    ASSUME NEW count \in Nat, NEW size \in Nat, size > 0, NEW block \in Nat
    PROVE  layout_offset(count, size, block + 1)
             = layout_offset(count, size, block) + layout_count(count, size, block)
BY DivMod DEF layout_offset, layout_count, LeastOf

LEMMA OffsetEnd ==
    ASSUME NEW count \in Nat, NEW size \in Nat, size > 0
    PROVE  layout_offset(count, size, size) = count
BY DivMod DEF layout_offset, LeastOf

LEMMA OffsetMonotonic ==
    ASSUME NEW count \in Nat, NEW size \in Nat, size > 0,
           NEW b \in Nat, NEW c \in Nat, b <= c
    PROVE  layout_offset(count, size, b) <= layout_offset(count, size, c)
<1> DEFINE q == count \div size
           rem == count % size
<1>1. q \in Nat /\ rem \in Nat
    BY DivMod
<1>2. b * q <= c * q /\ b * q \in Nat /\ c * q \in Nat
    BY <1>1, ProductMonotonic, ProductInNat
<1>3. LeastOf(b, rem) <= LeastOf(c, rem) /\ LeastOf(b, rem) \in Nat /\ LeastOf(c, rem) \in Nat
    BY <1>1 DEF LeastOf
<1> HIDE DEF q, rem
<1>4. b * q + LeastOf(b, rem) <= c * q + LeastOf(c, rem)
    BY <1>2, <1>3
<1> QED
    BY <1>4 DEF layout_offset, q, rem

\* A block ends inside the array.
LEMMA BlockInArray ==
    ASSUME NEW count \in Nat, NEW size \in Nat, size > 0, NEW block \in 0..(size - 1)
    PROVE  layout_offset(count, size, block) + layout_count(count, size, block) <= count
<1>1. layout_offset(count, size, block + 1) <= layout_offset(count, size, size)
    BY OffsetMonotonic
<1> QED
    BY <1>1, OffsetStep, OffsetEnd, LayoutTypes

\* No block is longer than the array cut in size parts, rounded up.
LEMMA BlockInTemporary ==
    ASSUME NEW count \in Nat, NEW size \in Nat, size > 0, NEW block \in Nat
    PROVE  layout_count(count, size, block) <= (count + size - 1) \div size
<1> DEFINE q == count \div size
           rem == count % size
           up == (count + size - 1) \div size
           upRem == (count + size - 1) % size
<1>1. /\ q \in Nat /\ rem \in 0..(size - 1) /\ count = size * q + rem
      /\ up \in Nat /\ upRem \in 0..(size - 1) /\ count + size - 1 = size * up + upRem
    BY DivMod
<1> HIDE DEF q, rem, up, upRem
<1>2. ASSUME up < q PROVE FALSE
    <2>1. size * up + size <= size * q
        <3>1. (up + 1) * size <= q * size
            BY <1>1, <1>2, ProductMonotonic
        <3> QED
            BY <3>1, <1>1
    <2> QED
        BY <2>1, <1>1, ProductInNat
<1>3. ASSUME up = q, rem > 0 PROVE FALSE
    BY <1>1, <1>3, ProductInNat
<1>4. q + (IF block < rem THEN 1 ELSE 0) <= up
    BY <1>1, <1>2, <1>3
<1> QED
    BY <1>4 DEF layout_count, q, rem, up

\* Blocks share no element.
LEMMA BlocksApart ==
    ASSUME NEW count \in Nat, NEW size \in Nat, size > 0,
           NEW b \in Nat, NEW c \in Nat, b # c
    PROVE  \/ layout_offset(count, size, b) + layout_count(count, size, b)
                <= layout_offset(count, size, c)
           \/ layout_offset(count, size, c) + layout_count(count, size, c)
                <= layout_offset(count, size, b)
<1>1. CASE b < c
    BY <1>1, OffsetStep, OffsetMonotonic, b + 1 \in Nat, b + 1 <= c
<1>2. CASE c < b
    BY <1>2, OffsetStep, OffsetMonotonic, c + 1 \in Nat, c + 1 <= b
<1> QED
    BY <1>1, <1>2

\* Every element is in a block.
LEMMA BlocksCover ==
    ASSUME NEW count \in Nat, NEW size \in Nat, size > 0, NEW e \in 0..(count - 1)
    PROVE  \E b \in 0..(size - 1) :
              /\ layout_offset(count, size, b) <= e
              /\ e < layout_offset(count, size, b) + layout_count(count, size, b)
<1> DEFINE q == count \div size
           rem == count % size
<1>1. q \in Nat /\ rem \in 0..(size - 1) /\ count = size * q + rem
    BY DivMod
<1>2. \A b : /\ layout_offset(count, size, b) = b * q + LeastOf(b, rem)
             /\ layout_count(count, size, b) = q + (IF b < rem THEN 1 ELSE 0)
    BY DEF layout_offset, layout_count
<1> HIDE DEF q, rem
<1>3. CASE e < rem * (q + 1)
    <2> DEFINE b == e \div (q + 1)
               m == e % (q + 1)
    <2>1. e \in Nat /\ q + 1 \in Nat /\ q + 1 > 0
        BY <1>1
    <2>2a. b \in Nat /\ m \in 0..((q + 1) - 1) /\ e = (q + 1) * b + m
        BY <2>1, DivMod, Zenon
    <2> HIDE DEF b, m
    <2>2. b \in Nat /\ m \in 0..q /\ e = (q + 1) * b + m
        BY <1>1, <2>2a
    <2>3. b < rem
        <3>1. SUFFICES ASSUME rem <= b PROVE FALSE
            BY <1>1, <2>2
        <3>2. rem * (q + 1) <= b * (q + 1)
            BY <1>1, <2>1, <2>2, <3>1, ProductMonotonic
        <3>3. b * (q + 1) = (q + 1) * b /\ b * (q + 1) \in Nat
            BY <2>1, <2>2, ProductInNat
        <3>4. rem * (q + 1) \in Nat
            BY <1>1, <2>1, ProductInNat
        <3> QED
            BY <1>3, <2>2, <3>2, <3>3, <3>4
    <2>4. (q + 1) * b = b * q + b /\ b * q \in Nat
        BY <1>1, <2>2, ProductInNat
    <2>5. LeastOf(b, rem) = b
        BY <1>1, <2>2, <2>3 DEF LeastOf
    <2>6. b \in 0..(size - 1) /\ b * q + b <= e /\ e < b * q + b + (q + 1)
        BY <1>1, <2>2, <2>3, <2>4
    <2> QED
        BY <1>2, <2>3, <2>5, <2>6
<1>4. CASE e >= rem * (q + 1)
    <2>1. rem * (q + 1) = rem * q + rem /\ rem * q \in Nat /\ rem * (q + 1) \in Nat
        BY <1>1, ProductInNat
    <2>2. q > 0
        <3>1. SUFFICES ASSUME q = 0 PROVE FALSE
            BY <1>1
        <3>2. count = rem
            BY <1>1, <3>1
        <3> QED
            BY <1>4, <2>1, <3>2
    <2> DEFINE rest == e - rem * (q + 1)
               b == rest \div q
               m == rest % q
    <2>3. rest \in Nat /\ q \in Nat
        BY <1>1, <1>4, <2>1
    <2> HIDE DEF rest
    <2>4. b \in Nat /\ m \in 0..(q - 1) /\ rest = q * b + m
        BY <2>2, <2>3, DivMod
    <2> HIDE DEF b, m
    <2>5. e = rem * q + rem + rest
        BY <1>1, <2>1, <2>3 DEF rest
    <2>6. (b + rem) * q = b * q + rem * q /\ q * b = b * q /\ b * q \in Nat
        BY <1>1, <2>4, ProductInNat
    <2>7. b + rem < size
        <3>1. SUFFICES ASSUME size <= b + rem PROVE FALSE
            BY <1>1, <2>4
        <3>2. size * q <= (b + rem) * q
            BY <1>1, <2>4, <3>1, ProductMonotonic
        <3>3. size * q \in Nat
            BY <1>1, ProductInNat
        <3> QED
            BY <1>1, <2>1, <2>4, <2>5, <2>6, <3>2, <3>3
    <2>8. LeastOf(b + rem, rem) = rem
        BY <1>1, <2>4 DEF LeastOf
    <2>9. ~(b + rem < rem) /\ b + rem \in 0..(size - 1)
        BY <1>1, <2>4, <2>7
    <2>10. (b + rem) * q + rem <= e /\ e < (b + rem) * q + rem + q
        BY <1>1, <2>1, <2>4, <2>5, <2>6
    <2> QED
        BY <1>1, <1>2, <2>8, <2>9, <2>10
<1> QED
    BY <1>1, <1>3, <1>4, ProductInNat

-----------------------------------------------------------------------------
(* Pieces.                                                                   *)

LEMMA PieceTypes ==
    ASSUME NEW bytes \in Nat, NEW element_size \in Nat \ {0}
    PROVE  piece_elements_for(bytes, element_size) \in Nat \ {0}
BY DivMod DEF piece_elements_for, GreatestOf

\* A piece below the piece count starts inside its block and ends inside it.
LEMMA PieceInBlock ==
    ASSUME NEW elements \in Nat, NEW length \in Nat \ {0}, NEW piece \in Nat,
           piece < piece_count_for(elements, length)
    PROVE  /\ piece * length \in Nat
           /\ piece_length(elements, length, piece) \in Nat \ {0}
           /\ piece * length + piece_length(elements, length, piece) <= elements
<1> DEFINE d == (elements + length - 1) \div length
           m == (elements + length - 1) % length
<1>1. d \in Nat /\ m \in 0..(length - 1) /\ elements + length - 1 = length * d + m
    BY DivMod
<1>2. piece + 1 <= d
    BY <1>1 DEF piece_count_for
<1> HIDE DEF d, m
<1>3. (piece + 1) * length <= d * length
    BY <1>1, <1>2, ProductMonotonic
<1>4. piece * length \in Nat /\ d * length \in Nat /\ length * d = d * length
    BY <1>1, ProductInNat
<1>5. (piece + 1) * length = piece * length + length
    BY SMT
<1> DEFINE first == piece * length
<1> HIDE DEF first
<1>6. first \in Nat /\ first + length <= elements + length - 1
    BY <1>1, <1>3, <1>4, <1>5 DEF first
<1>7. /\ LeastOf(length, elements - first) \in Nat \ {0}
      /\ first + LeastOf(length, elements - first) <= elements
    BY <1>6 DEF LeastOf
<1> QED
    BY <1>6, <1>7 DEF piece_length, first

\* How many pieces a block is cut into: none if it is empty, one if it is not
\* longer than a piece.
LEMMA PieceCounts ==
    ASSUME NEW elements \in Nat, NEW length \in Nat \ {0}
    PROVE  /\ piece_count_for(elements, length) \in Nat
           /\ elements = 0 <=> piece_count_for(elements, length) = 0
           /\ 0 < elements /\ elements <= length => piece_count_for(elements, length) = 1
<1> DEFINE d == (elements + length - 1) \div length
           m == (elements + length - 1) % length
<1>1. /\ d \in Nat /\ m \in 0..(length - 1) /\ elements + length - 1 = length * d + m
      /\ piece_count_for(elements, length) = d
    BY DivMod DEF piece_count_for
<1> HIDE DEF d, m
<1>2. CASE d = 0
    BY <1>1, <1>2
<1>3. CASE d = 1
    BY <1>1, <1>3
<1>4. CASE d >= 2
    <2>1. 2 * length <= d * length /\ length * d = d * length /\ d * length \in Nat
        BY <1>1, <1>4, ProductMonotonic, ProductInNat
    <2> QED
        BY <1>1, <1>4, <2>1
<1> QED
    BY <1>1, <1>2, <1>3, <1>4

\* Two ranks whose longest piece of a block is equally long cut it alike.
LEMMA CutAlike ==
    ASSUME NEW elements \in Nat, NEW a \in Nat \ {0}, NEW b \in Nat \ {0},
           LeastOf(a, elements) = LeastOf(b, elements)
    PROVE  /\ piece_count_for(elements, a) = piece_count_for(elements, b)
           /\ \A k \in Nat : k < piece_count_for(elements, a) =>
                 piece_length(elements, a, k) = piece_length(elements, b, k)
<1>1. CASE a = b
    BY <1>1
<1>2. CASE a # b
    <2>1. elements <= a /\ elements <= b
        BY <1>2 DEF LeastOf
    <2>2. CASE elements = 0
        BY <2>2, PieceCounts
    <2>3. CASE elements # 0
        <3>1. piece_count_for(elements, a) = 1 /\ piece_count_for(elements, b) = 1
            BY <2>1, <2>3, PieceCounts
        <3>2. piece_length(elements, a, 0) = piece_length(elements, b, 0)
            <4>1. 0 * a = 0 /\ 0 * b = 0
                OBVIOUS
            <4> QED
                BY <4>1 DEF piece_length
        <3>3. \A k \in Nat : k < 1 => k = 0
            OBVIOUS
        <3> QED
            BY <3>1, <3>2, <3>3
    <2> QED
        BY <2>2, <2>3
<1> QED
    BY <1>1, <1>2

\* Different pieces do not overlap.
LEMMA PiecesApart ==
    ASSUME NEW elements \in Nat, NEW length \in Nat \ {0}, NEW j \in Nat, NEW k \in Nat,
           j < k
    PROVE  j * length + piece_length(elements, length, j) <= k * length
<1>1. (j + 1) * length <= k * length
    BY ProductMonotonic
<1>2. (j + 1) * length = j * length + length
    BY SMT
<1>3. j * length \in Nat /\ k * length \in Nat
    BY ProductInNat
<1> DEFINE first == j * length
           last  == k * length
<1> HIDE DEF first, last
<1>4. first + length <= last /\ first \in Nat /\ last \in Nat
    BY <1>1, <1>2, <1>3 DEF first, last
<1>5. first + LeastOf(length, elements - first) <= last
    BY <1>4 DEF LeastOf
<1> QED
    BY <1>5 DEF piece_length, first, last

\* The pieces reach the end of the block.
LEMMA PiecesCover ==
    ASSUME NEW elements \in Nat, NEW length \in Nat \ {0}
    PROVE  elements <= piece_count_for(elements, length) * length
<1> DEFINE d == (elements + length - 1) \div length
           m == (elements + length - 1) % length
<1>1. /\ d \in Nat /\ m \in 0..(length - 1) /\ elements + length - 1 = length * d + m
      /\ piece_count_for(elements, length) = d
    BY DivMod DEF piece_count_for
<1> HIDE DEF d, m
<1>2. d * length = length * d /\ d * length \in Nat
    BY <1>1, ProductInNat
<1> QED
    BY <1>1, <1>2

\* When no batch is left no piece is.
LEMMA BatchesCover ==
    ASSUME NEW sends \in Nat, NEW recvs \in Nat, NEW capacity \in Nat \ {0},
           NEW batches \in Nat, batch_count_for(sends, recvs, capacity) <= batches
    PROVE  sends <= batches * capacity /\ recvs <= batches * capacity
<1> DEFINE most == GreatestOf(sends, recvs)
           d == (most + capacity - 1) \div capacity
           m == (most + capacity - 1) % capacity
<1>1. most \in Nat /\ sends <= most /\ recvs <= most
    BY DEF GreatestOf
<1>2. most + capacity - 1 \in Nat
    BY <1>1
<1>3. /\ d \in Nat /\ m \in 0..(capacity - 1) /\ most + capacity - 1 = capacity * d + m
      /\ d <= batches
    BY <1>2, DivMod DEF batch_count_for
<1> HIDE DEF most, d, m
<1>4. d * capacity <= batches * capacity /\ d * capacity = capacity * d
      /\ d * capacity \in Nat /\ batches * capacity \in Nat
    BY <1>3, ProductMonotonic, ProductInNat
<1> QED
    BY <1>1, <1>3, <1>4

-----------------------------------------------------------------------------
(* The ring.                                                                 *)

LEMMA PositiveModRange ==
    ASSUME NEW value \in Int, NEW n \in Nat, n > 0
    PROVE  positive_mod(value, n) \in 0..(n - 1)
BY DivMod DEF positive_mod, TruncatedMod

LEMMA PositiveModValue ==
    ASSUME NEW value \in Int, NEW modulus \in Nat \ {0},
           -modulus <= value, value <= modulus
    PROVE  positive_mod(value, modulus)
             = IF value \in {-modulus, modulus} THEN 0
               ELSE IF value < 0 THEN value + modulus ELSE value
<1>1. CASE value \in {-modulus, modulus}
    <2>1. modulus % modulus = 0
        BY SMT
    <2> QED
        BY <1>1, <2>1 DEF positive_mod, TruncatedMod
<1>2. CASE value \notin {-modulus, modulus} /\ value < 0
    <2>1. -value \in 1..(modulus - 1)
        BY <1>2
    <2>2. (-value) % modulus = -value
        BY <2>1, SMT
    <2> QED
        BY <1>2, <2>2 DEF positive_mod, TruncatedMod
<1>3. CASE value \notin {-modulus, modulus} /\ value >= 0
    <2>1. value \in 0..(modulus - 1)
        BY <1>3
    <2>2. value % modulus = value
        BY <2>1, SMT
    <2> QED
        BY <1>3, <2>2 DEF positive_mod, TruncatedMod
<1> QED
    BY <1>1, <1>2, <1>3

LEMMA BlockRange ==
    ASSUME NEW rank \in Int, NEW size \in Nat, size > 0, NEW step \in Int,
           NEW phase \in {ReduceScatter, AllGather}
    PROVE  /\ send_block(rank, size, phase, step) \in 0..(size - 1)
           /\ recv_block(rank, size, phase, step) \in 0..(size - 1)
BY PositiveModRange DEF send_block, recv_block

-----------------------------------------------------------------------------
(* Tags.                                                                     *)

LEMMA TagType ==
    ASSUME NEW sequence \in Nat, NEW phase \in {ReduceScatter, AllGather},
           NEW step \in Nat, NEW piece \in Nat
    PROVE  make_tag(sequence, phase, step, piece) \in Nat
<1>1. sequence % (kSequenceMask + 1) \in Nat
    BY DivMod, MaskAssumption
<1> DEFINE s == sequence % (kSequenceMask + 1)
<1> HIDE DEF s
<1>2. (s * 2 + phase) \in Nat
    BY <1>1 DEF s, ReduceScatter, AllGather
<1>3. ((s * 2 + phase) * (kStepMask + 1) + step) \in Nat
    BY <1>2, MaskAssumption, ProductInNat
<1>4. ((s * 2 + phase) * (kStepMask + 1) + step) * (kPieceMask + 1) + piece \in Nat
    BY <1>3, MaskAssumption, ProductInNat
<1> QED
    BY <1>4 DEF make_tag, s

LEMMA RadixUnique ==
    ASSUME NEW n \in Nat, NEW a \in Nat, NEW b \in Nat,
           NEW x \in 0..(n - 1), NEW y \in 0..(n - 1), a * n + x = b * n + y
    PROVE  a = b /\ x = y
<1>1. ASSUME NEW c \in Nat, NEW d \in Nat, c < d PROVE c * n + n <= d * n
    <2>1. (c + 1) * n <= d * n
        BY <1>1, ProductMonotonic
    <2>2. (c + 1) * n = c * n + n
        BY SMT
    <2> QED
        BY <2>1, <2>2
<1>2. a * n \in Nat /\ b * n \in Nat
    BY ProductInNat
<1>3. ~(a < b) /\ ~(b < a)
    BY <1>1, <1>2
<1>4. a = b
    BY <1>3
<1> QED
    BY <1>4, <1>2

\* Where a count of ring steps, phase after phase and call after call, stands.
LEMMA StepCount ==
    ASSUME NEW size \in Nat \ {0}, NEW call \in Nat,
           NEW phase \in {ReduceScatter, AllGather}, NEW step \in 0..(size - 1)
    PROVE  /\ call * 2 * size + phase * size + step \in Nat
           /\ ((call * 2 * size + phase * size + step) \div size) % 2 = phase
           /\ (call * 2 * size + phase * size + step) % size = step
<1> DEFINE count == call * 2 * size + phase * size + step
<1>1. phase \in {0, 1}
    BY DEF ReduceScatter, AllGather
<1>2. count = (call * 2 + phase) * size + step
    BY <1>1, SMT
<1>3. call * 2 + phase \in Nat /\ (call * 2 + phase) * size \in Nat
    BY <1>1, ProductInNat
<1> DEFINE whole == call * 2 + phase
<1>4. whole % 2 = phase
    BY <1>1
<1> HIDE DEF whole
<1>5. count \in Nat /\ whole \in Nat /\ count = whole * size + step
    BY <1>2, <1>3 DEF whole
<1> HIDE DEF count
<1> DEFINE d == count \div size
           m == count % size
<1>6. d \in Nat /\ m \in 0..(size - 1) /\ count = size * d + m
    <2>1. size \in Nat /\ size > 0 /\ count \in Nat
        BY <1>5
    <2> QED
        BY <2>1, DivMod, Zenon
<1> HIDE DEF d, m
<1>7. d * size = size * d
    BY <1>6
<1>8. d = whole /\ m = step
    <2>1. d * size + m = whole * size + step
        BY <1>5, <1>6, <1>7
    <2> QED
        BY <1>5, <1>6, <2>1, RadixUnique
<1> QED
    BY <1>4, <1>5, <1>8 DEF d, m, count

\* Two pieces whose tags fit the fields share a tag only when they are the same
\* piece of the same step and phase, of calls a multiple of the sequence range
\* apart (make_tag, ring_collectives.cpp:47).
THEOREM TagsDistinct ==
    ASSUME NEW seq1 \in Nat, NEW seq2 \in Nat,
           NEW phase1 \in {ReduceScatter, AllGather},
           NEW phase2 \in {ReduceScatter, AllGather},
           NEW step1 \in Nat, NEW step2 \in Nat, NEW piece1 \in Nat, NEW piece2 \in Nat,
           TagInRange(step1, piece1), TagInRange(step2, piece2),
           make_tag(seq1, phase1, step1, piece1) = make_tag(seq2, phase2, step2, piece2)
    PROVE  /\ piece1 = piece2 /\ step1 = step2 /\ phase1 = phase2
           /\ seq1 % (kSequenceMask + 1) = seq2 % (kSequenceMask + 1)
<1> DEFINE s1 == seq1 % (kSequenceMask + 1)
           s2 == seq2 % (kSequenceMask + 1)
<1>1. s1 \in Nat /\ s2 \in Nat
    BY DivMod, MaskAssumption
<1> HIDE DEF s1, s2
<1> DEFINE p1 == s1 * 2 + phase1
           p2 == s2 * 2 + phase2
<1>2. p1 \in Nat /\ p2 \in Nat
    BY <1>1 DEF ReduceScatter, AllGather
<1>3. p1 = p2 => s1 = s2 /\ phase1 = phase2
    BY <1>1 DEF ReduceScatter, AllGather
<1> HIDE DEF p1, p2
<1> DEFINE q1 == p1 * (kStepMask + 1) + step1
           q2 == p2 * (kStepMask + 1) + step2
<1>4. q1 \in Nat /\ q2 \in Nat
    BY <1>2, MaskAssumption, ProductInNat
<1>5. q1 = q2 => p1 = p2 /\ step1 = step2
    BY <1>2, MaskAssumption, RadixUnique DEF TagInRange
<1> HIDE DEF q1, q2
<1>6. q1 * (kPieceMask + 1) + piece1 = q2 * (kPieceMask + 1) + piece2
    BY DEF make_tag, q1, q2, p1, p2, s1, s2
<1>7. q1 = q2 /\ piece1 = piece2
    BY <1>4, <1>6, MaskAssumption, RadixUnique DEF TagInRange
<1> QED
    BY <1>3, <1>5, <1>7 DEF s1, s2
=============================================================================
