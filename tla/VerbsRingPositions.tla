------------------------- MODULE VerbsRingPositions -------------------------
(* Where every rank is in the ring, and where the regions its work requests  *)
(* and descriptors name lie, for every number of ranks, array length and     *)
(* configuration: no region is used twice at once, and what two neighbours   *)
(* exchange belongs to the same step.                                        *)
EXTENDS VerbsRingQueues

\* The rank that lies steps behind q on the ring.
Back(q, steps) == IF steps <= q THEN q - steps ELSE q - steps + WorldSize

Size == WorldSize - 1

\* Ring steps are counted through phases and calls: what step g is.
StepPhase(g) == (g \div Size) % 2
StepIndex(g) == g % Size

\* The block rank s sends in its g-th ring step.
Moved(s, g) == send_block(s, WorldSize, StepPhase(g), StepIndex(g))

\* How many pieces of the current blocks rank r has posted.
SendsPosted(r) ==
    LeastOf(SendPieces(r),
            CASE pc[r] \in {"idle", "batch", "postRecv"} -> BeginPiece(r)
              [] pc[r] = "postSend"                      -> piece[r]
              [] OTHER                                   -> EndPiece(r))
RecvsPosted(r) ==
    LeastOf(RecvPieces(r),
            CASE pc[r] \in {"idle", "batch"} -> BeginPiece(r)
              [] pc[r] = "postRecv"          -> piece[r]
              [] OTHER                       -> EndPiece(r))

\* Where a rank is in its loops.
Located(r) ==
    /\ pc[r] = "idle" => phase[r] = ReduceScatter /\ step[r] = 0 /\ batch[r] = 0
    /\ pc[r] # "idle" => calls[r] >= 1
    /\ pc[r] \in {"postRecv", "postSend"} =>
         BeginPiece(r) <= piece[r] /\ piece[r] <= EndPiece(r)

-----------------------------------------------------------------------------
(* Steps and blocks.                                                         *)

LEMMA BackFacts ==
    ASSUME NEW q \in Ranks
    PROVE  /\ \A i \in 0..WorldSize : Back(q, i) \in Ranks
           /\ Back(q, 0) = q /\ Back(q, WorldSize) = q
           /\ \A i \in 0..Size : Back(Back(q, 1), i) = Back(q, i + 1)
           /\ \A i, j \in 0..WorldSize : i + j <= WorldSize =>
                 Back(Back(q, i), j) = Back(q, i + j)
           /\ \A i, j \in 0..Size : Back(q, i) = Back(q, j) => i = j
BY WorldAssumption DEF Back, Ranks, Size

LEMMA BackCovers ==
    ASSUME NEW q \in Ranks, NEW b \in Ranks
    PROVE  \E i \in 0..Size : b = Back(q, i)
<1>1. CASE b <= q
    <2>1. q - b \in 0..Size /\ b = Back(q, q - b)
        BY <1>1, WorldAssumption DEF Back, Ranks, Size
    <2> QED
        BY <2>1
<1>2. CASE ~(b <= q)
    <2>1. q - b + WorldSize \in 0..Size /\ b = Back(q, q - b + WorldSize)
        BY <1>2, WorldAssumption DEF Back, Ranks, Size
    <2> QED
        BY <2>1
<1> QED
    BY <1>1, <1>2

LEMMA PrevIsBack ==
    ASSUME NEW r \in Ranks
    PROVE  PrevRank(r) = Back(r, 1)
<1>1. r \in Nat /\ r < WorldSize /\ WorldSize \in Nat /\ WorldSize >= 2
    BY WorldAssumption DEF Ranks
<1>2. CASE r = 0
    <2>1. r - 1 + WorldSize = WorldSize - 1 /\ WorldSize - 1 \in Nat
        BY <1>1, <1>2
    <2> QED
        BY <1>1, <1>2, <2>1, SmallMod DEF PrevRank, Back
<1>3. CASE r # 0
    <2>1. r - 1 + WorldSize = WorldSize + (r - 1) /\ r - 1 \in Nat /\ r - 1 < WorldSize
        BY <1>1, <1>3
    <2>2. PrevRank(r) = r - 1
        BY <1>1, <2>1, SMT DEF PrevRank
    <2> QED
        BY <1>1, <1>3, <2>2 DEF Back
<1> QED
    BY <1>2, <1>3

\* Which blocks move, as distances on the ring.
LEMMA BlocksMoved ==
    ASSUME NEW r \in Ranks, NEW s \in 0..(WorldSize - 2)
    PROVE  /\ send_block(r, WorldSize, ReduceScatter, s) = Back(r, s)
           /\ recv_block(r, WorldSize, ReduceScatter, s) = Back(r, s + 1)
           /\ send_block(r, WorldSize, AllGather, s) =
                IF s = 0 THEN Back(r, Size) ELSE Back(r, s - 1)
           /\ recv_block(r, WorldSize, AllGather, s) = Back(r, s)
<1>1. /\ WorldSize \in Nat \ {0} /\ WorldSize >= 2 /\ r \in Nat /\ r < WorldSize
      /\ s \in Nat /\ s <= WorldSize - 2
    BY WorldAssumption DEF Ranks
<1>2. ASSUME NEW t \in 0..WorldSize
      PROVE  positive_mod(r - t, WorldSize) = Back(r, t)
    <2>1. r - t \in Int /\ -WorldSize <= r - t /\ r - t <= WorldSize
        BY <1>1
    <2> QED
        BY <1>1, <2>1, PositiveModValue DEF Back
<1>3. s \in 0..WorldSize /\ s + 1 \in 0..WorldSize /\ r - s - 1 = r - (s + 1)
    BY <1>1
<1>4. CASE s = 0
    <2>1. r - s + 1 \in Int /\ -WorldSize <= r - s + 1 /\ r - s + 1 <= WorldSize
        BY <1>1, <1>4
    <2>2. positive_mod(r - s + 1, WorldSize) = Back(r, Size)
        BY <1>1, <1>4, <2>1, PositiveModValue DEF Back, Size
    <2> QED
        BY <1>2, <1>3, <1>4, <2>2
           DEF send_block, recv_block, ReduceScatter, AllGather
<1>5. CASE s # 0
    <2>1. s - 1 \in 0..WorldSize /\ r - s + 1 = r - (s - 1)
        BY <1>1, <1>5
    <2> QED
        BY <1>2, <1>3, <1>5, <2>1 DEF send_block, recv_block, ReduceScatter, AllGather
<1> QED
    BY <1>4, <1>5

\* What a rank receives is what the previous rank sends, and not what it sends.
LEMMA ReceivesSent ==
    ASSUME NEW r \in Ranks, NEW s \in 0..(WorldSize - 2),
           NEW ph \in {ReduceScatter, AllGather}
    PROVE  /\ recv_block(r, WorldSize, ph, s) = send_block(PrevRank(r), WorldSize, ph, s)
           /\ recv_block(r, WorldSize, ph, s) # send_block(r, WorldSize, ph, s)
           /\ recv_block(r, WorldSize, ph, s) \in Ranks
           /\ send_block(r, WorldSize, ph, s) \in Ranks
<1>1. /\ WorldSize \in Nat /\ WorldSize >= 2 /\ s \in 0..Size /\ s + 1 \in 0..WorldSize
      /\ s + 1 \in 0..Size /\ Size + 1 = WorldSize /\ Size \in 0..Size /\ s \in 0..WorldSize
      /\ Size \in 0..WorldSize
    BY WorldAssumption DEF Size
<1>2. PrevRank(r) = Back(r, 1) /\ PrevRank(r) \in Ranks
    BY PrevIsBack, PrevRankFacts
<1>3. CASE ph = ReduceScatter
    <2>1. /\ recv_block(r, WorldSize, ph, s) = Back(r, s + 1)
          /\ send_block(r, WorldSize, ph, s) = Back(r, s)
          /\ send_block(PrevRank(r), WorldSize, ph, s) = Back(Back(r, 1), s)
        BY <1>2, <1>3, BlocksMoved
    <2>2. Back(Back(r, 1), s) = Back(r, s + 1)
        BY <1>1, BackFacts
    <2>3. Back(r, s + 1) # Back(r, s)
        BY <1>1, BackFacts, s + 1 # s
    <2>4. Back(r, s + 1) \in Ranks /\ Back(r, s) \in Ranks
        BY <1>1, BackFacts
    <2> QED
        BY <2>1, <2>2, <2>3, <2>4
<1>4. CASE ph = AllGather /\ s = 0
    <2>1. /\ recv_block(r, WorldSize, ph, s) = Back(r, 0)
          /\ send_block(r, WorldSize, ph, s) = Back(r, Size)
          /\ send_block(PrevRank(r), WorldSize, ph, s) = Back(Back(r, 1), Size)
        BY <1>2, <1>4, BlocksMoved
    <2>2. Back(Back(r, 1), Size) = Back(r, 0)
        BY <1>1, BackFacts
    <2>3. Back(r, Size) # Back(r, 0)
        BY <1>1, BackFacts, Size # 0
    <2>4. Back(r, Size) \in Ranks /\ Back(r, 0) \in Ranks
        BY <1>1, BackFacts
    <2> QED
        BY <2>1, <2>2, <2>3, <2>4
<1>5. CASE ph = AllGather /\ s # 0
    <2>1. /\ recv_block(r, WorldSize, ph, s) = Back(r, s)
          /\ send_block(r, WorldSize, ph, s) = Back(r, s - 1)
          /\ send_block(PrevRank(r), WorldSize, ph, s) = Back(Back(r, 1), s - 1)
        BY <1>2, <1>5, BlocksMoved
    <2>0. s - 1 \in 0..Size /\ (s - 1) + 1 = s /\ s - 1 # s /\ s - 1 \in 0..WorldSize
        BY <1>1, <1>5
    <2>2. Back(Back(r, 1), s - 1) = Back(r, s)
        BY <1>1, <2>0, BackFacts
    <2>3. Back(r, s - 1) # Back(r, s)
        BY <1>1, <2>0, BackFacts
    <2>4. Back(r, s - 1) \in Ranks /\ Back(r, s) \in Ranks
        BY <1>1, <2>0, BackFacts
    <2> QED
        BY <2>1, <2>2, <2>3, <2>4
<1> QED
    BY <1>3, <1>4, <1>5

-----------------------------------------------------------------------------
(* Where a rank is.                                                          *)

LEMMA StepFacts ==
    ASSUME TypeInv, NEW r \in Ranks, Located(r)
    PROVE  /\ StepsDone(r) \in Nat
           /\ StepPhase(StepsDone(r)) = phase[r]
           /\ StepIndex(StepsDone(r)) = step[r]
           /\ SendBlock(r) = Moved(r, StepsDone(r))
           /\ RecvBlock(r) = Moved(PrevRank(r), StepsDone(r))
           /\ RecvBlock(r) # SendBlock(r)
<1>1. /\ phase[r] \in {ReduceScatter, AllGather} /\ step[r] \in 0..(WorldSize - 2)
      /\ calls[r] \in Nat /\ Size \in Nat \ {0} /\ WorldSize - 2 = Size - 1
      /\ WorldSize - 1 = Size /\ step[r] \in 0..(Size - 1)
    BY WorldAssumption, CollectiveAssumption
       DEF TypeInv, TypeOK, TypeOKProgram, Size
<1>2. ASSUME NEW call \in Nat,
             StepsDone(r) = call * 2 * Size + phase[r] * Size + step[r]
      PROVE  /\ StepsDone(r) \in Nat /\ (StepsDone(r) \div Size) % 2 = phase[r]
             /\ StepsDone(r) % Size = step[r]
    <2>1. Size \in Nat \ {0} /\ phase[r] \in {ReduceScatter, AllGather}
          /\ step[r] \in 0..(Size - 1)
        BY <1>1
    <2> HIDE DEF Size
    <2>2. /\ call * 2 * Size + phase[r] * Size + step[r] \in Nat
          /\ ((call * 2 * Size + phase[r] * Size + step[r]) \div Size) % 2 = phase[r]
          /\ (call * 2 * Size + phase[r] * Size + step[r]) % Size = step[r]
        BY <2>1, StepCount, Zenon
    <2> QED
        BY <1>2, <2>2, Zenon
<1>4. StepsDone(r) \in Nat /\ (StepsDone(r) \div Size) % 2 = phase[r]
      /\ StepsDone(r) % Size = step[r]
    <2>1. CASE pc[r] = "idle"
        <3>1. phase[r] = ReduceScatter /\ step[r] = 0
            BY <2>1 DEF Located
        <3>2. calls[r] * 2 * Size \in Nat
            BY <1>1, ProductInNat
        <3>3. StepsDone(r) = calls[r] * 2 * Size + phase[r] * Size + step[r]
            BY <1>1, <2>1, <3>1, <3>2 DEF StepsDone, ReduceScatter
        <3> QED
            BY <1>1, <1>2, <3>3
    <2>2. CASE pc[r] # "idle"
        <3>1. calls[r] - 1 \in Nat
            BY <1>1, <2>2 DEF Located
        <3>2. StepsDone(r) = (calls[r] - 1) * 2 * Size + phase[r] * Size + step[r]
            BY <1>1, <2>2 DEF StepsDone
        <3> QED
            BY <1>1, <1>2, <3>1, <3>2
    <2> QED
        BY <2>1, <2>2
<1>3. StepPhase(StepsDone(r)) = phase[r] /\ StepIndex(StepsDone(r)) = step[r]
    BY <1>4 DEF StepPhase, StepIndex
<1> QED
    BY <1>1, <1>3, <1>4, ReceivesSent DEF SendBlock, RecvBlock, Moved

\* Pieces of a block as rank r cuts it.
Pieces(r, block) == piece_count_for(BlockCount(block), piece_elements(r))

LEMMA PiecesType ==
    ASSUME NEW r \in Ranks, NEW block \in Ranks
    PROVE  /\ Pieces(r, block) \in Nat
           /\ Pieces(r, block) = 0 <=> BlockCount(block) = 0
BY BlockBounds, ConfigTypes, PieceCounts DEF Pieces

LEMMA CountFacts ==
    ASSUME TypeInv, NEW r \in Ranks, Located(r)
    PROVE  /\ SendPieces(r) \in Nat /\ RecvPieces(r) \in Nat
           /\ SendsPosted(r) \in Nat /\ SendsPosted(r) <= SendPieces(r)
           /\ RecvsPosted(r) \in Nat /\ RecvsPosted(r) <= RecvPieces(r)
           /\ BeginPiece(r) \in Nat /\ EndPiece(r) \in Nat /\ piece[r] \in Nat
           /\ BeginPiece(r) <= EndPiece(r)
           /\ SendPieces(r) = Pieces(r, SendBlock(r))
           /\ RecvPieces(r) = Pieces(r, RecvBlock(r))
<1>1. ProgramOK
    BY DEF TypeInv, TypeOK, ProgramOK
<1>2. /\ batch[r] \in Nat /\ piece[r] \in Nat /\ batch_capacity(r) \in Nat \ {0}
    BY <1>1, ConfigTypes DEF ProgramOK, TypeOKProgram
<1>3. BeginPiece(r) \in Nat
    BY <1>2, ProductInNat DEF BeginPiece
<1>4. EndPiece(r) \in Nat /\ BeginPiece(r) <= EndPiece(r)
    BY <1>2, <1>3 DEF EndPiece
<1>5. SendPieces(r) \in Nat /\ RecvPieces(r) \in Nat
    BY <1>1, BlockTypes, BlockBounds, ConfigTypes, PieceCounts DEF SendPieces, RecvPieces
<1>6. \A n, a \in Nat : LeastOf(n, a) \in Nat /\ LeastOf(n, a) <= n
    BY DEF LeastOf
<1>7. (CASE pc[r] \in {"idle", "batch", "postRecv"} -> BeginPiece(r)
         [] pc[r] = "postSend" -> piece[r]
         [] OTHER -> EndPiece(r)) \in Nat
    BY <1>2, <1>3, <1>4
<1>8. (CASE pc[r] \in {"idle", "batch"} -> BeginPiece(r)
         [] pc[r] = "postRecv" -> piece[r]
         [] OTHER -> EndPiece(r)) \in Nat
    BY <1>2, <1>3, <1>4
<1>9. SendsPosted(r) \in Nat /\ SendsPosted(r) <= SendPieces(r)
    BY <1>5, <1>6, <1>7 DEF SendsPosted
<1>10. RecvsPosted(r) \in Nat /\ RecvsPosted(r) <= RecvPieces(r)
    BY <1>5, <1>6, <1>8 DEF RecvsPosted
<1> QED
    BY <1>2, <1>3, <1>4, <1>5, <1>9, <1>10 DEF SendPieces, RecvPieces, Pieces

\* Where a piece of a block starts in it, how long it is, and where it lands
\* when rank r receives it.
PieceStart(r, j) == j * piece_elements(r)
CutLength(r, block, j) == piece_length(BlockCount(block), piece_elements(r), j)
Landing(r, ph, block, j) ==
    IF ph = ReduceScatter
    THEN Region("temporary_buffer", PieceStart(r, j), CutLength(r, block, j))
    ELSE Region("workbuf", BlockOffset(block) + PieceStart(r, j), CutLength(r, block, j))

-----------------------------------------------------------------------------
(* What a step of a rank that does not fail does to its position and to the  *)
(* queues.                                                                   *)

QueuesKept == UNCHANGED <<recv_queue, send_queue, unacknowledged, control, qp_error>>

SameStep(r) ==
    phase'[r] = phase[r] /\ step'[r] = step[r] /\ StepsDone(r)' = StepsDone(r)

Stays(r) ==
    /\ QueuesKept /\ SameStep(r)
    /\ recv_requests'[r] = recv_requests[r]
    /\ SendsPosted(r)' = SendsPosted(r) /\ RecvsPosted(r)' = RecvsPosted(r)

Receives(r) ==
    LET j == RecvsPosted(r) IN
    /\ SameStep(r) /\ UNCHANGED <<send_queue, unacknowledged, qp_error>>
    /\ j < RecvPieces(r) /\ RecvsPosted(r)' = j + 1 /\ SendsPosted(r)' = SendsPosted(r)
    /\ \E state \in RequestStates : \E recv \in RecvWrs, descriptor \in ControlMessages :
          /\ recv_requests'[r] =
               Append(recv_requests[r],
                      PostedRequest(state, PieceStart(r, j), CutLength(r, RecvBlock(r), j)))
          /\ recv.wr_id = state
          /\ recv_queue' = [recv_queue EXCEPT ![r] = Append(@, recv)]
          /\ descriptor.remote_address = Landing(r, phase[r], RecvBlock(r), j)
          /\ descriptor.bytes = CutLength(r, RecvBlock(r), j) * ElementSize
          /\ control' = [control EXCEPT ![r] = Append(@, descriptor)]

Sends(r) ==
    LET j == SendsPosted(r) IN
    /\ SameStep(r) /\ UNCHANGED <<recv_queue, unacknowledged, qp_error>>
    /\ pc[r] # "idle" /\ pc'[r] = pc[r]
    /\ j < SendPieces(r) /\ SendsPosted(r)' = j + 1 /\ RecvsPosted(r)' = RecvsPosted(r)
    /\ recv_requests'[r] = recv_requests[r]
    /\ control[NextRank(r)] # <<>>
    /\ control' = [control EXCEPT ![NextRank(r)] = Tail(@)]
    /\ Head(control[NextRank(r)]).bytes = CutLength(r, SendBlock(r), j) * ElementSize
    /\ \E send \in SendWrs :
          /\ send.sge = Region("workbuf", BlockOffset(SendBlock(r)) + PieceStart(r, j),
                               CutLength(r, SendBlock(r), j))
          /\ send.remote_address = Head(control[NextRank(r)]).remote_address
          /\ send_queue' = [send_queue EXCEPT ![r] = Append(@, send)]

Consumes(r) ==
    /\ QueuesKept /\ SameStep(r)
    /\ SendsPosted(r)' = SendsPosted(r) /\ RecvsPosted(r)' = RecvsPosted(r)
    /\ pc[r] = "waitRecv" /\ recv_requests[r] # <<>>
    /\ Head(recv_requests[r]).request \in completed[r]
    /\ recv_requests'[r] = Tail(recv_requests[r])

Advances(r) ==
    /\ QueuesKept
    /\ recv_requests[r] = <<>> /\ send_requests[r] = <<>> /\ recv_requests'[r] = <<>>
    /\ StepsDone(r)' = StepsDone(r) + 1
    /\ SendsPosted(r) = SendPieces(r) /\ RecvsPosted(r) = RecvPieces(r)
    /\ SendsPosted(r)' = 0 /\ RecvsPosted(r)' = 0

\* The rank's call fails; it may have read a descriptor it has no use for.
GivesUp(r) ==
    /\ ~Unfailed(r)'
    /\ UNCHANGED <<recv_queue, send_queue, unacknowledged, qp_error>>
    /\ \/ UNCHANGED control
       \/ /\ control[NextRank(r)] # <<>>
          /\ control' = [control EXCEPT ![NextRank(r)] = Tail(@)]

LEMMA FailureEffect ==
    ASSUME TypeInv, NEW r \in Ranks, NEW status \in Statuses, status # PG_SUCCESS,
           Return(r, status)
    PROVE  Located(r)' /\ ~Unfailed(r)'
<1>1. ~Unfailed(r)'
    BY ReturnFails
<1>2. pc'[r] = "idle" /\ phase'[r] = ReduceScatter /\ step'[r] = 0 /\ batch'[r] = 0
    BY DEF Return, Goto, TypeInv, TypeOK, TypeOKProgram
<1> QED
    BY <1>1, <1>2 DEF Located

LEMMA ErrorEffect ==
    ASSUME TypeInv, NEW r \in Ranks, NEW status \in Statuses, status # PG_SUCCESS,
           ReturnError(r, status), UNCHANGED verbs_vars
    PROVE  Located(r)' /\ GivesUp(r)
BY FailureEffect DEF ReturnError, GivesUp, verbs_vars

LEMMA AtLocation ==
    ASSUME TypeInv, NEW r \in Ranks, NEW location, Goto(r, location)
    PROVE  pc'[r] = location
BY DEF Goto, TypeInv, TypeOK, TypeOKProgram

LEMMA LeastFacts ==
    ASSUME NEW n \in Nat, NEW a \in Nat, NEW b \in Nat
    PROVE  /\ n <= a => LeastOf(n, a) = n
           /\ a < n => LeastOf(n, a) = a
           /\ a <= n => LeastOf(n, a) = a
           /\ ~(a < LeastOf(b, n)) /\ a <= b => LeastOf(n, a) = LeastOf(n, b)
           /\ LeastOf(n, 0) = 0
           /\ a < LeastOf(b, n) => a < n
BY DEF LeastOf

\* Loop boundaries inside a step.
LEMMA BoundaryEffect ==
    ASSUME TypeInv, NEW r \in Ranks, Located(r), UNCHANGED verbs_vars,
           \/ BeginBatch(r) \/ EndPostRecv(r) \/ EndPostSend(r)
           \/ EndWaitRecv(r) \/ EndBatch(r)
    PROVE  Located(r)' /\ Stays(r)
<1> USE DEF SameStep, QueuesKept, verbs_vars
<1>1. /\ pc \in [Ranks -> Locations] /\ piece \in [Ranks -> Nat] /\ batch \in [Ranks -> Nat]
      /\ phase \in [Ranks -> {ReduceScatter, AllGather}]
    BY DEF TypeInv, TypeOK, TypeOKProgram
<1>2. /\ SendPieces(r) \in Nat /\ RecvPieces(r) \in Nat
      /\ BeginPiece(r) \in Nat /\ EndPiece(r) \in Nat /\ piece[r] \in Nat
      /\ BeginPiece(r) <= EndPiece(r)
    BY CountFacts
<1>3. UNCHANGED <<phase, step, calls>> /\ pc[r] # "idle" /\ pc'[r] # "idle"
    BY <1>1 DEF BeginBatch, EndPostRecv, EndPostSend, EndWaitRecv, EndBatch, Goto
<1>4. /\ StepsDone(r)' = StepsDone(r)
      /\ SendPieces(r)' = SendPieces(r) /\ RecvPieces(r)' = RecvPieces(r)
    BY <1>3 DEF StepsDone, SendPieces, RecvPieces, SendBlock, RecvBlock
<1>5. SameStep(r) /\ QueuesKept /\ recv_requests'[r] = recv_requests[r]
    BY <1>3, <1>4 DEF BeginBatch, EndPostRecv, EndPostSend, EndWaitRecv, EndBatch
<1>6. CASE BeginBatch(r)
    <2>1. /\ pc[r] = "batch" /\ pc'[r] = "postRecv" /\ piece'[r] = BeginPiece(r)
          /\ batch'[r] = batch[r]
        BY <1>1, <1>6 DEF BeginBatch, Goto
    <2>2. BeginPiece(r)' = BeginPiece(r) /\ EndPiece(r)' = EndPiece(r)
        BY <2>1 DEF BeginPiece, EndPiece
    <2> QED
        BY <1>2, <1>3, <1>4, <1>5, <2>1, <2>2
           DEF Stays, SendsPosted, RecvsPosted, Located
<1>7. CASE EndPostRecv(r)
    <2>1. /\ pc[r] = "postRecv" /\ pc'[r] = "postSend" /\ piece'[r] = BeginPiece(r)
          /\ batch'[r] = batch[r]
        BY <1>1, <1>7 DEF EndPostRecv, Goto
    <2>2. BeginPiece(r)' = BeginPiece(r) /\ EndPiece(r)' = EndPiece(r)
        BY <2>1 DEF BeginPiece, EndPiece
    <2>3. ~(piece[r] < LeastOf(EndPiece(r), RecvPieces(r))) /\ piece[r] <= EndPiece(r)
        BY <1>7, <2>1 DEF EndPostRecv, RecvToPost, Located
    <2>4. LeastOf(RecvPieces(r), piece[r]) = LeastOf(RecvPieces(r), EndPiece(r))
        BY <1>2, <2>3, LeastFacts
    <2> QED
        BY <1>2, <1>3, <1>4, <1>5, <2>1, <2>2, <2>4
           DEF Stays, SendsPosted, RecvsPosted, Located
<1>8. CASE EndPostSend(r)
    <2>1. /\ pc[r] = "postSend" /\ pc'[r] = "waitRecv" /\ batch'[r] = batch[r]
        BY <1>1, <1>8 DEF EndPostSend, Goto
    <2>2. BeginPiece(r)' = BeginPiece(r) /\ EndPiece(r)' = EndPiece(r)
        BY <2>1 DEF BeginPiece, EndPiece
    <2>3. ~(piece[r] < LeastOf(EndPiece(r), SendPieces(r))) /\ piece[r] <= EndPiece(r)
        BY <1>8, <2>1 DEF EndPostSend, SendToPost, Located
    <2>4. LeastOf(SendPieces(r), piece[r]) = LeastOf(SendPieces(r), EndPiece(r))
        BY <1>2, <2>3, LeastFacts
    <2>5. calls'[r] = calls[r] /\ calls[r] >= 1
        BY <1>3 DEF Located
    <2> QED
        BY <1>2, <1>3, <1>4, <1>5, <2>1, <2>2, <2>4, <2>5
           DEF Stays, SendsPosted, RecvsPosted, Located
<1>9. CASE EndWaitRecv(r)
    <2>1. /\ pc[r] = "waitRecv" /\ pc'[r] = "waitSend" /\ batch'[r] = batch[r]
        BY <1>1, <1>9 DEF EndWaitRecv, Goto
    <2>2. BeginPiece(r)' = BeginPiece(r) /\ EndPiece(r)' = EndPiece(r)
        BY <2>1 DEF BeginPiece, EndPiece
    <2> QED
        BY <1>2, <1>3, <1>4, <1>5, <2>1, <2>2
           DEF Stays, SendsPosted, RecvsPosted, Located
<1>10. CASE EndBatch(r)
    <2>1. /\ pc[r] = "waitSend" /\ pc'[r] = "batch" /\ batch'[r] = batch[r] + 1
        BY <1>1, <1>10 DEF EndBatch, Goto
    <2>2. BeginPiece(r)' = EndPiece(r)
        <3>1. batch[r] \in Nat /\ batch_capacity(r) \in Nat
            BY <1>1, ConfigTypes
        <3>2. (batch[r] + 1) * batch_capacity(r)
                = batch[r] * batch_capacity(r) + batch_capacity(r)
            BY <3>1, SMT
        <3> QED
            BY <2>1, <3>2 DEF BeginPiece, EndPiece
    <2> QED
        BY <1>2, <1>3, <1>4, <1>5, <2>1, <2>2
           DEF Stays, SendsPosted, RecvsPosted, Located
<1> QED
    BY <1>6, <1>7, <1>8, <1>9, <1>10

LEMMA BeginCallEffect ==
    ASSUME TypeInv, NEW r \in Ranks, Located(r), UNCHANGED verbs_vars, BeginCall(r)
    PROVE  Located(r)' /\ Stays(r)
<1>1. /\ pc \in [Ranks -> Locations] /\ calls \in [Ranks -> 0..Len(Calls)]
      /\ calls[r] \in Nat
    BY CollectiveAssumption DEF TypeInv, TypeOK, TypeOKProgram
<1>2. /\ pc[r] = "idle" /\ pc'[r] = "batch" /\ calls'[r] = calls[r] + 1
      /\ UNCHANGED <<phase, step, batch, piece, recv_requests>>
    BY <1>1 DEF BeginCall, MayCall, Goto
<1>3. phase[r] = ReduceScatter /\ step[r] = 0
    BY <1>2 DEF Located
<1>4. StepsDone(r)' = StepsDone(r)
    <2>1. calls'[r] - 1 = calls[r]
        BY <1>1, <1>2
    <2>2. StepsDone(r)' = calls[r] * 2 * (WorldSize - 1) + 0 * (WorldSize - 1) + 0
        BY <1>2, <1>3, <2>1 DEF StepsDone, ReduceScatter
    <2>3. calls[r] * 2 * (WorldSize - 1) \in Nat /\ 0 * (WorldSize - 1) = 0
        BY <1>1, WorldAssumption, ProductInNat
    <2> QED
        BY <1>2, <2>2, <2>3 DEF StepsDone
<1>5. /\ SendPieces(r)' = SendPieces(r) /\ RecvPieces(r)' = RecvPieces(r)
      /\ BeginPiece(r)' = BeginPiece(r)
    BY <1>2 DEF SendPieces, RecvPieces, SendBlock, RecvBlock, BeginPiece
<1>6. SendsPosted(r)' = SendsPosted(r) /\ RecvsPosted(r)' = RecvsPosted(r)
    BY <1>2, <1>5 DEF SendsPosted, RecvsPosted
<1>7. Located(r)'
    BY <1>1, <1>2 DEF Located
<1> QED
    BY <1>2, <1>4, <1>6, <1>7 DEF Stays, SameStep, QueuesKept, verbs_vars

\* The last batch of a step is done, and with it every piece of the step.
LEMMA StepComplete ==
    ASSUME HeldInv, NEW r \in Ranks, Located(r), pc[r] = "batch", ~BatchesLeft(r)
    PROVE  /\ recv_requests[r] = <<>> /\ send_requests[r] = <<>>
           /\ SendsPosted(r) = SendPieces(r) /\ RecvsPosted(r) = RecvPieces(r)
<1>1. TypeInv /\ RecvsInBlock(r) /\ InBatch(r)
    BY DEF HeldInv, LinkInv, TypeInv, HeldAt
<1>2. recv_requests[r] = <<>> /\ send_requests[r] = <<>>
    BY <1>1 DEF RecvsInBlock, InBatch
<1>3. /\ SendPieces(r) \in Nat /\ RecvPieces(r) \in Nat /\ BeginPiece(r) \in Nat
      /\ batch[r] \in Nat /\ batch_capacity(r) \in Nat \ {0}
    BY <1>1, CountFacts, ConfigTypes DEF TypeInv, TypeOK, TypeOKProgram
<1>4. TotalBatches(r) <= batch[r]
    <2>1. GreatestOf(SendPieces(r), RecvPieces(r)) \in Nat
        BY <1>3 DEF GreatestOf
    <2>2. GreatestOf(SendPieces(r), RecvPieces(r)) + batch_capacity(r) - 1 \in Nat
        BY <1>3, <2>1
    <2>3. TotalBatches(r) \in Nat
        BY <1>3, <2>2, DivMod DEF TotalBatches, batch_count_for
    <2> QED
        BY <1>3, <2>3 DEF BatchesLeft
<1>5. SendPieces(r) <= BeginPiece(r) /\ RecvPieces(r) <= BeginPiece(r)
    BY <1>3, <1>4, BatchesCover DEF TotalBatches, BeginPiece
<1> QED
    BY <1>2, <1>3, <1>5, LeastFacts DEF SendsPosted, RecvsPosted

LEMMA AdvanceEffect ==
    ASSUME HeldInv, NEW r \in Ranks, Located(r), UNCHANGED verbs_vars,
           NextStep(r) \/ BeginAllGather(r) \/ ReturnSuccess(r)
    PROVE  Located(r)' /\ Advances(r)
<1>1. TypeInv /\ TypeInv' /\ pc[r] = "batch" /\ ~BatchesLeft(r)
    <2>1. TypeInv
        BY DEF HeldInv, LinkInv
    <2>2. UNCHANGED verbs_vars /\ Proceed(r)
        BY DEF Proceed
    <2>3. TypeInv'
        BY <2>1, <2>2, NextTypes DEF Next, RunRank
    <2> QED
        BY <2>1, <2>3 DEF NextStep, BeginAllGather, ReturnSuccess
<1>2. /\ pc \in [Ranks -> Locations] /\ step \in [Ranks -> 0..(WorldSize - 2)]
      /\ phase \in [Ranks -> {ReduceScatter, AllGather}] /\ batch \in [Ranks -> Nat]
      /\ calls \in [Ranks -> 0..Len(Calls)] /\ calls[r] \in Nat /\ calls[r] >= 1
      /\ recv_requests \in [Ranks -> Seq(PostedRequests(RequestStates))]
    <2>1. Len(Calls) \in Nat /\ \A c \in 0..Len(Calls) : c \in Nat
        BY CollectiveAssumption
    <2>2. calls[r] >= 1
        BY <1>1 DEF Located
    <2> QED
        BY <1>1, <2>1, <2>2 DEF TypeInv, TypeOK, TypeOKProgram
<1>3. batch'[r] = 0 /\ UNCHANGED calls /\ pc'[r] \in {"batch", "idle"}
    BY <1>1, <1>2 DEF NextStep, BeginAllGather, ReturnSuccess, Return, Goto
<1>4. /\ recv_requests[r] = <<>> /\ send_requests[r] = <<>>
      /\ SendsPosted(r) = SendPieces(r) /\ RecvsPosted(r) = RecvPieces(r)
    BY <1>1, StepComplete
<1>5. recv_requests'[r] = <<>>
    BY <1>2, <1>4 DEF NextStep, BeginAllGather, ReturnSuccess, Return
<1>6. Located(r)'
    BY <1>2, <1>3 DEF Located, NextStep, BeginAllGather, ReturnSuccess, Return, Goto
<1>7. SendsPosted(r)' = 0 /\ RecvsPosted(r)' = 0
    <2>1. BeginPiece(r)' = 0
        <3>1. batch_capacity(r) \in Nat
            BY ConfigTypes
        <3> QED
            BY <1>3, <3>1 DEF BeginPiece
    <2>2. SendPieces(r)' \in Nat /\ RecvPieces(r)' \in Nat
        <3>1. phase'[r] \in {ReduceScatter, AllGather} /\ step'[r] \in 0..(WorldSize - 2)
            BY <1>1 DEF TypeInv, TypeOK, TypeOKProgram
        <3>2. /\ send_block(r, WorldSize, phase'[r], step'[r]) \in Ranks
              /\ recv_block(r, WorldSize, phase'[r], step'[r]) \in Ranks
            BY <3>1, ReceivesSent
        <3> QED
            BY <3>2, PiecesType DEF SendPieces, RecvPieces, SendBlock, RecvBlock, Pieces
    <2>3. \A n \in Nat : LeastOf(n, 0) = 0
        BY DEF LeastOf
    <2> QED
        BY <1>3, <2>1, <2>2, <2>3 DEF SendsPosted, RecvsPosted
<1>8. StepsDone(r)' = StepsDone(r) + 1
    <2> DEFINE before == (calls[r] - 1) * 2 * (WorldSize - 1)
    <2>1. WorldSize \in Nat /\ WorldSize >= 2 /\ WorldSize - 1 \in Nat
        BY WorldAssumption
    <2>2. before \in Nat /\ calls[r] * 2 * (WorldSize - 1) = before + 2 * (WorldSize - 1)
        <3>1. PICK c \in Nat : calls[r] = c + 1
            BY <1>2, calls[r] = (calls[r] - 1) + 1, calls[r] - 1 \in Nat
        <3>2. calls[r] - 1 = c /\ c * 2 \in Nat
            BY <3>1
        <3>3. (c + 1) * 2 * (WorldSize - 1) = c * 2 * (WorldSize - 1) + 2 * (WorldSize - 1)
            BY <2>1, SMT
        <3> QED
            BY <2>1, <3>1, <3>2, <3>3, ProductInNat
    <2> HIDE DEF before
    <2>3. StepsDone(r) = before + phase[r] * (WorldSize - 1) + step[r]
        BY <1>1 DEF StepsDone, before
    <2>4. step[r] \in Nat /\ step[r] <= WorldSize - 2 /\ phase[r] \in {0, 1}
        BY <1>2, <2>1 DEF ReduceScatter, AllGather
    <2>5. CASE NextStep(r)
        <3>1. step'[r] = step[r] + 1 /\ phase'[r] = phase[r] /\ pc'[r] = "batch"
            BY <1>2, <2>5 DEF NextStep
        <3>2. StepsDone(r)' = before + phase[r] * (WorldSize - 1) + (step[r] + 1)
            BY <1>3, <3>1 DEF StepsDone, before
        <3>3. phase[r] * (WorldSize - 1) \in Nat
            BY <2>1, <2>4, ProductInNat
        <3> QED
            BY <2>2, <2>3, <2>4, <3>2, <3>3
    <2>6. CASE BeginAllGather(r)
        <3>1. /\ step'[r] = 0 /\ phase'[r] = 1 /\ pc'[r] = "batch"
              /\ phase[r] = 0 /\ step[r] + 1 >= WorldSize - 1
            BY <1>2, <2>6 DEF BeginAllGather, ReduceScatter, AllGather
        <3>2. StepsDone(r)' = before + 1 * (WorldSize - 1) + 0
            BY <1>3, <3>1 DEF StepsDone, before
        <3>3. step[r] + 1 = WorldSize - 1
            BY <2>1, <2>4, <3>1
        <3>4. StepsDone(r) = before + 0 * (WorldSize - 1) + step[r]
            BY <2>3, <3>1
        <3> QED
            BY <2>1, <2>2, <2>4, <3>2, <3>3, <3>4
    <2>7. CASE ReturnSuccess(r)
        <3>1. /\ pc'[r] = "idle" /\ phase[r] = 1 /\ step[r] + 1 >= WorldSize - 1
            BY <1>2, <2>7 DEF ReturnSuccess, Return, Goto, ReduceScatter, AllGather
        <3>2. StepsDone(r)' = calls[r] * 2 * (WorldSize - 1)
            BY <1>3, <3>1 DEF StepsDone
        <3>3. step[r] + 1 = WorldSize - 1
            BY <2>1, <2>4, <3>1
        <3>4. StepsDone(r) = before + 1 * (WorldSize - 1) + step[r]
            BY <2>3, <3>1
        <3> QED
            BY <2>1, <2>2, <2>4, <3>2, <3>3, <3>4
    <2> QED
        BY <2>5, <2>6, <2>7
<1> QED
    BY <1>4, <1>5, <1>6, <1>7, <1>8 DEF Advances, QueuesKept, verbs_vars

\* Both posting loops are at the piece they post next, which exists.
LEMMA LoopPiece ==
    ASSUME TypeInv, NEW r \in Ranks, Located(r)
    PROVE  /\ RecvToPost(r) => /\ RecvsPosted(r) = piece[r] /\ piece[r] < RecvPieces(r)
                               /\ piece[r] < EndPiece(r)
           /\ SendToPost(r) => /\ SendsPosted(r) = piece[r] /\ piece[r] < SendPieces(r)
                               /\ piece[r] < EndPiece(r)
<1>1. /\ SendPieces(r) \in Nat /\ RecvPieces(r) \in Nat
      /\ EndPiece(r) \in Nat /\ piece[r] \in Nat
    BY CountFacts
<1>2. ASSUME NEW n \in Nat, piece[r] < LeastOf(EndPiece(r), n)
      PROVE  LeastOf(n, piece[r]) = piece[r] /\ piece[r] < n /\ piece[r] < EndPiece(r)
    BY <1>1, <1>2 DEF LeastOf
<1>3. ASSUME RecvToPost(r) PROVE RecvsPosted(r) = piece[r] /\ piece[r] < RecvPieces(r)
                                 /\ piece[r] < EndPiece(r)
    BY <1>1, <1>2, <1>3 DEF RecvToPost, RecvsPosted
<1>4. ASSUME SendToPost(r) PROVE SendsPosted(r) = piece[r] /\ piece[r] < SendPieces(r)
                                 /\ piece[r] < EndPiece(r)
    BY <1>1, <1>2, <1>4 DEF SendToPost, SendsPosted
<1> QED
    BY <1>3, <1>4

LEMMA NextPiece ==
    ASSUME TypeInv, NEW r \in Ranks, Located(r), piece' = [piece EXCEPT ![r] = @ + 1],
           UNCHANGED <<pc, phase, step, batch, calls>>,
           RecvToPost(r) \/ SendToPost(r)
    PROVE  /\ Located(r)' /\ SameStep(r)
           /\ RecvToPost(r) => /\ RecvsPosted(r)' = piece[r] + 1
                               /\ SendsPosted(r)' = SendsPosted(r)
           /\ SendToPost(r) => /\ SendsPosted(r)' = piece[r] + 1
                               /\ RecvsPosted(r)' = RecvsPosted(r)
<1>1. /\ SendPieces(r) \in Nat /\ RecvPieces(r) \in Nat /\ BeginPiece(r) \in Nat
      /\ EndPiece(r) \in Nat /\ piece[r] \in Nat
    BY CountFacts
<1>2. piece'[r] = piece[r] + 1
    BY DEF TypeInv, TypeOK, TypeOKProgram
<1>3. /\ SendPieces(r)' = SendPieces(r) /\ RecvPieces(r)' = RecvPieces(r)
      /\ BeginPiece(r)' = BeginPiece(r) /\ EndPiece(r)' = EndPiece(r)
    BY DEF SendPieces, RecvPieces, SendBlock, RecvBlock, BeginPiece, EndPiece
<1>4. SameStep(r)
    BY DEF SameStep, StepsDone
<1>5. /\ RecvToPost(r) => piece[r] < RecvPieces(r) /\ piece[r] < EndPiece(r)
      /\ SendToPost(r) => piece[r] < SendPieces(r) /\ piece[r] < EndPiece(r)
    BY LoopPiece
<1>6. /\ RecvToPost(r) => pc[r] = "postRecv"
      /\ SendToPost(r) => pc[r] = "postSend"
    BY DEF RecvToPost, SendToPost
<1>7. Located(r)'
    BY <1>1, <1>2, <1>3, <1>5, <1>6 DEF Located
<1>8. \A n \in Nat : piece[r] < n => LeastOf(n, piece[r] + 1) = piece[r] + 1
    BY <1>1 DEF LeastOf
<1>9. RecvToPost(r) => /\ RecvsPosted(r)' = piece[r] + 1
                       /\ SendsPosted(r)' = SendsPosted(r)
    BY <1>1, <1>2, <1>3, <1>5, <1>6, <1>8 DEF RecvsPosted, SendsPosted
<1>10. SendToPost(r) => /\ SendsPosted(r)' = piece[r] + 1
                        /\ RecvsPosted(r)' = RecvsPosted(r)
    BY <1>1, <1>2, <1>3, <1>5, <1>6, <1>8 DEF RecvsPosted, SendsPosted
<1> QED
    BY <1>4, <1>7, <1>9, <1>10

LEMMA PostRecvEffect ==
    ASSUME TypeInv, NEW r \in Ranks, Located(r), PostRecv(r)
    PROVE  Located(r)' /\ (Receives(r) \/ GivesUp(r))
<1> DEFINE state == NewRequest(r, "recv", Tag(r), RecvBytes(r), transfer_mode(r))
           recv == RecvWr(state, RecvBytes(r), RecvRegion(r))
           descriptor == ControlMessage(Tag(r), RecvBytes(r), state.mode, RecvRegion(r))
<1>1. RecvToPost(r) /\ ProgramOK /\ TypeOKVerbs
    BY DEF PostRecv, TypeInv, TypeOK, ProgramOK
<1>2. /\ RecvRegion(r) \in Regions /\ RecvBytes(r) \in Nat /\ Tag(r) \in Nat
    BY <1>1, PostedRegions, TagTypes
<1>3. /\ recv_requests \in [Ranks -> Seq(PostedRequests(RequestStates))]
    BY <1>1 DEF ProgramOK, TypeOKProgram
<1>4. CASE /\ post_receive_previous(r, RecvRegion(r), RecvBytes(r), Tag(r), transfer_mode(r))
           /\ RecvPosted(r, state)
    <2>1. state \in RequestStates
        BY <1>1, <1>2, NewRequestType
    <2>2. recv \in RecvWrs /\ recv.wr_id = state
        BY <1>2, <2>1, EmptyRegion DEF RecvWr, RecvWrs
    <2>3. /\ descriptor \in ControlMessages
          /\ descriptor.remote_address = RecvRegion(r) /\ descriptor.bytes = RecvBytes(r)
        BY <1>2, <2>1 DEF ControlMessage, ControlMessages, RequestStates
    <2>4. /\ recv_queue' = [recv_queue EXCEPT ![r] = Append(@, recv)]
          /\ control' = [control EXCEPT ![r] = Append(@, descriptor)]
          /\ UNCHANGED <<send_queue, unacknowledged, qp_error>>
        BY <1>4 DEF post_receive_previous
    <2>5. /\ recv_requests'[r] =
               Append(recv_requests[r],
                      PostedRequest(state, PieceOffset(r), PieceLength(r, RecvBlock(r))))
          /\ piece' = [piece EXCEPT ![r] = @ + 1]
          /\ UNCHANGED <<pc, phase, step, batch, calls>>
        BY <1>3, <1>4 DEF RecvPosted
    <2> HIDE DEF state, recv, descriptor
    <2>6. /\ Located(r)' /\ SameStep(r) /\ RecvsPosted(r)' = piece[r] + 1
          /\ SendsPosted(r)' = SendsPosted(r)
        BY <1>1, <2>5, NextPiece
    <2>7. RecvsPosted(r) = piece[r] /\ piece[r] < RecvPieces(r)
        BY <1>1, LoopPiece
    <2>8. /\ PieceOffset(r) = PieceStart(r, piece[r])
          /\ PieceLength(r, RecvBlock(r)) = CutLength(r, RecvBlock(r), piece[r])
          /\ RecvRegion(r) = Landing(r, phase[r], RecvBlock(r), piece[r])
          /\ RecvBytes(r) = CutLength(r, RecvBlock(r), piece[r]) * ElementSize
        BY DEF PieceOffset, PieceStart, PieceLength, CutLength, RecvRegion, Landing, RecvBytes
    <2>9. Receives(r)
        BY <2>1, <2>2, <2>3, <2>4, <2>5, <2>6, <2>7, <2>8 DEF Receives
    <2> QED
        BY <2>6, <2>9
<1>5. CASE post_receive_throws(r) /\ ReturnError(r, PG_ERR_TRANSPORT)
    <2>1. UNCHANGED <<recv_queue, send_queue, unacknowledged, qp_error, control>>
        BY <1>5 DEF post_receive_throws
    <2>2. Return(r, PG_ERR_TRANSPORT) /\ PG_ERR_TRANSPORT \in Statuses \ {PG_SUCCESS}
        BY <1>5 DEF ReturnError, PG_ERR_TRANSPORT, Statuses, PG_SUCCESS
    <2> QED
        BY <2>1, <2>2, FailureEffect DEF GivesUp
<1> QED
    BY <1>4, <1>5 DEF PostRecv

LEMMA PostSendEffect ==
    ASSUME TypeInv, NEW r \in Ranks, Located(r), PostSend(r)
    PROVE  Located(r)' /\ (Sends(r) \/ GivesUp(r))
<1> DEFINE state == NewRequest(r, "send", Tag(r), SendBytes(r), transfer_mode(r))
           descriptor == Head(control[NextRank(r)])
           send == SendWr(state, SendBytes(r), SendRegion(r), descriptor.remote_address)
<1>1. SendToPost(r) /\ ProgramOK /\ TypeOKVerbs
    BY DEF PostSend, TypeInv, TypeOK, ProgramOK
<1>2. /\ SendRegion(r) \in Regions /\ SendBytes(r) \in Nat /\ Tag(r) \in Nat
    BY <1>1, PostedRegions, TagTypes
<1>4. CASE /\ post_send_next(r, SendRegion(r), SendBytes(r), Tag(r), transfer_mode(r))
           /\ SendPosted(r, state)
    <2>1. state \in RequestStates
        BY <1>1, <1>2, NewRequestType
    <2>2. /\ control[NextRank(r)] # <<>>
          /\ control' = [control EXCEPT ![NextRank(r)] = Tail(@)]
          /\ send_queue' = [send_queue EXCEPT ![r] = Append(@, send)]
          /\ UNCHANGED <<recv_queue, unacknowledged, qp_error>>
          /\ descriptor.bytes = SendBytes(r)
        BY <1>4 DEF post_send_next, DescriptorMatches
    <2>3. descriptor \in ControlMessages
        <3>1. control[NextRank(r)] \in Seq(ControlMessages)
            BY <1>1, RankFacts DEF TypeOKVerbs
        <3> QED
            BY <2>2, <3>1
    <2>4. /\ send \in SendWrs /\ send.sge = SendRegion(r)
          /\ send.remote_address = descriptor.remote_address
        BY <1>2, <2>1, <2>3 DEF SendWr, SendWrs, RequestStates, ControlMessages
    <2>5. /\ piece' = [piece EXCEPT ![r] = @ + 1] /\ recv_requests'[r] = recv_requests[r]
          /\ UNCHANGED <<pc, phase, step, batch, calls>>
        BY <1>4 DEF SendPosted
    <2>5a. pc[r] # "idle" /\ pc'[r] = pc[r]
        BY <1>1, <2>5 DEF SendToPost
    <2> HIDE DEF state, descriptor, send
    <2>6. /\ Located(r)' /\ SameStep(r) /\ SendsPosted(r)' = piece[r] + 1
          /\ RecvsPosted(r)' = RecvsPosted(r)
        BY <1>1, <2>5, NextPiece
    <2>7. SendsPosted(r) = piece[r] /\ piece[r] < SendPieces(r)
        BY <1>1, LoopPiece
    <2>8. /\ SendRegion(r) = Region("workbuf", BlockOffset(SendBlock(r)) + PieceStart(r, piece[r]),
                                    CutLength(r, SendBlock(r), piece[r]))
          /\ SendBytes(r) = CutLength(r, SendBlock(r), piece[r]) * ElementSize
        BY DEF PieceOffset, PieceStart, PieceLength, CutLength, SendRegion, SendBytes
    <2>9. Sends(r)
        BY <2>2, <2>4, <2>5, <2>5a, <2>6, <2>7, <2>8 DEF Sends, descriptor
    <2> QED
        BY <2>6, <2>9
<1>5. CASE /\ post_send_throws(r, SendBytes(r), Tag(r), transfer_mode(r))
           /\ ReturnError(r, PG_ERR_TRANSPORT)
    <2>1. /\ UNCHANGED <<recv_queue, send_queue, unacknowledged, qp_error>>
          /\ control[NextRank(r)] # <<>>
          /\ control' = [control EXCEPT ![NextRank(r)] = Tail(@)]
        BY <1>5 DEF post_send_throws
    <2>2. Return(r, PG_ERR_TRANSPORT) /\ PG_ERR_TRANSPORT \in Statuses \ {PG_SUCCESS}
        BY <1>5 DEF ReturnError, PG_ERR_TRANSPORT, Statuses, PG_SUCCESS
    <2> QED
        BY <2>1, <2>2, FailureEffect DEF GivesUp
<1> QED
    BY <1>4, <1>5 DEF PostSend

LEMMA RunEffects ==
    ASSUME HeldInv, NEW r \in Ranks, Located(r), RunRank(r)
    PROVE  /\ Located(r)'
           /\ \/ Stays(r) \/ Receives(r) \/ Sends(r) \/ Consumes(r) \/ Advances(r)
              \/ GivesUp(r)
<1>0. TypeInv
    BY DEF HeldInv, LinkInv
<1>1. ASSUME UNCHANGED <<pc, phase, step, batch, piece, calls>>
      PROVE  /\ Located(r)' /\ SameStep(r)
             /\ SendsPosted(r)' = SendsPosted(r) /\ RecvsPosted(r)' = RecvsPosted(r)
    BY <1>1 DEF Located, SameStep, StepsDone, SendsPosted, RecvsPosted, BeginPiece, EndPiece,
                SendPieces, RecvPieces, SendBlock, RecvBlock
<1>2. ASSUME NEW status, ReturnError(r, status), status \in Statuses \ {PG_SUCCESS},
             QueuesKept
      PROVE  Located(r)' /\ GivesUp(r)
    BY <1>0, <1>2, FailureEffect DEF ReturnError, GivesUp, QueuesKept
<1>3. CASE Proceed(r) /\ UNCHANGED verbs_vars
    <2>1. CASE RefuseCall(r)
        <3>1. \E status \in Statuses \ {PG_SUCCESS} : Return(r, status)
            BY <2>1 DEF RefuseCall, Statuses, PG_SUCCESS, PG_ERR_INVALID_ARGUMENT,
                        PG_ERR_UNSUPPORTED_DATATYPE
        <3> QED
            BY <1>0, <1>3, <3>1, FailureEffect DEF GivesUp, verbs_vars
    <2>2. CASE TagOutOfRange(r)
        BY <1>2, <1>3, <2>2
           DEF TagOutOfRange, Statuses, PG_SUCCESS, PG_ERR_TAG_RANGE, QueuesKept, verbs_vars
    <2>3. CASE BeginCall(r)
        BY <1>0, <1>3, <2>3, BeginCallEffect
    <2>4. CASE NextStep(r) \/ BeginAllGather(r) \/ ReturnSuccess(r)
        BY <1>3, <2>4, AdvanceEffect
    <2>5. CASE \/ BeginBatch(r) \/ EndPostRecv(r) \/ EndPostSend(r)
               \/ EndWaitRecv(r) \/ EndBatch(r)
        BY <1>0, <1>3, <2>5, BoundaryEffect
    <2> QED
        BY <1>3, <2>1, <2>2, <2>3, <2>4, <2>5 DEF Proceed
<1>4. CASE PostRecv(r)
    BY <1>0, <1>4, PostRecvEffect
<1>5. CASE PostSend(r)
    BY <1>0, <1>5, PostSendEffect
<1>6. CASE Poll(r)
    <2>1. QueuesKept /\ UNCHANGED program_vars
        BY <1>6 DEF Poll, handle_completion, QueuesKept
    <2> QED
        BY <1>1, <2>1 DEF Stays, program_vars
<1>7. CASE PollFails(r)
    BY <1>2, <1>7
       DEF PollFails, Statuses, PG_SUCCESS, PG_ERR_TRANSPORT, QueuesKept, verbs_vars
<1>8. CASE Wait(r)
    <2>1. PICK request \in Awaited(r) :
             /\ consume_request(r, request)
             /\ \/ RecvWaited(r) \/ OperationUnsupported(r) \/ SendWaited(r)
                \/ ReturnError(r, PG_ERR_TRANSPORT)
        BY <1>8 DEF Wait
    <2>2. QueuesKept /\ request \in completed[r]
        BY <2>1 DEF consume_request, QueuesKept
    <2>3. CASE RecvWaited(r)
        <3>1. /\ pc[r] = "waitRecv" /\ recv_requests[r] # <<>>
              /\ recv_requests' = [recv_requests EXCEPT ![r] = Tail(@)]
              /\ UNCHANGED <<pc, phase, step, batch, piece, calls>>
            BY <2>3 DEF RecvWaited
        <3>2. request = Head(recv_requests[r]).request
            BY <2>1, <3>1 DEF Awaited
        <3>3. recv_requests'[r] = Tail(recv_requests[r])
            BY <1>0, <3>1 DEF TypeInv, TypeOK, TypeOKProgram
        <3> QED
            BY <1>1, <2>2, <3>1, <3>2, <3>3 DEF Consumes
    <2>4. CASE OperationUnsupported(r)
        BY <1>2, <2>2, <2>4
           DEF OperationUnsupported, Statuses, PG_SUCCESS, PG_ERR_UNSUPPORTED_OPERATION
    <2>5. CASE SendWaited(r)
        BY <1>1, <2>2, <2>5 DEF SendWaited, Stays
    <2>6. CASE ReturnError(r, PG_ERR_TRANSPORT)
        BY <1>2, <2>2, <2>6 DEF Statuses, PG_SUCCESS, PG_ERR_TRANSPORT
    <2> QED
        BY <2>1, <2>3, <2>4, <2>5, <2>6
<1> QED
    BY <1>3, <1>4, <1>5, <1>6, <1>7, <1>8 DEF RunRank

-----------------------------------------------------------------------------
(* Where the regions lie that queues and lists name.  In each of them piece  *)
(* follows piece, so the first piece says where all of them are.             *)

DescsFrom(r, ph, block, descs, first) ==
    \A k \in 1..Len(descs) :
        /\ descs[k].remote_address = Landing(r, ph, block, first + k - 1)
        /\ descs[k].bytes = CutLength(r, block, first + k - 1) * ElementSize

SendsFrom(r, ph, block, sends, first) ==
    \A k \in 1..Len(sends) :
        /\ sends[k].remote_address = Landing(r, ph, block, first + k - 1)
        /\ sends[k].sge.length = CutLength(r, block, first + k - 1)

ListFrom(r, block, list, first) ==
    \A k \in 1..Len(list) :
        /\ list[k].element_offset = PieceStart(r, first + k - 1)
        /\ list[k].element_count = CutLength(r, block, first + k - 1)

WithinBlock(region, block) ==
    /\ region.buffer = "workbuf"
    /\ BlockOffset(block) <= region.first
    /\ region.first + region.length <= BlockOffset(block) + BlockCount(block)

SourcesIn(block, sends) == \A k \in 1..Len(sends) : WithinBlock(sends[k].sge, block)

\* The receive WRs still posted are the last requests of the list.
WaitedFor(list, recvs) ==
    /\ Len(recvs) <= Len(list)
    /\ \A k \in 1..Len(recvs) : recvs[k].wr_id = list[Len(list) - Len(recvs) + k].request

LEMMA DescsAppend ==
    ASSUME NEW r, NEW ph, NEW block, NEW descs \in Seq(ControlMessages), NEW first \in Nat,
           NEW descriptor \in ControlMessages, DescsFrom(r, ph, block, descs, first),
           descriptor.remote_address = Landing(r, ph, block, first + Len(descs)),
           descriptor.bytes = CutLength(r, block, first + Len(descs)) * ElementSize
    PROVE  DescsFrom(r, ph, block, Append(descs, descriptor), first)
<1> DEFINE more == Append(descs, descriptor)
<1>1. /\ Len(more) = Len(descs) + 1 /\ Len(descs) \in Nat
      /\ more[Len(descs) + 1] = descriptor
      /\ \A k \in 1..Len(descs) : more[k] = descs[k]
    OBVIOUS
<1> HIDE DEF more
<1>2. first + Len(descs) = first + (Len(descs) + 1) - 1
    BY <1>1
<1>3. \A k \in 1..Len(more) : k \in 1..Len(descs) \/ k = Len(descs) + 1
    BY <1>1
<1>4. DescsFrom(r, ph, block, more, first)
    BY <1>1, <1>2, <1>3 DEF DescsFrom
<1> QED
    BY <1>4 DEF more

LEMMA DescsTail ==
    ASSUME NEW r, NEW ph, NEW block, NEW descs \in Seq(ControlMessages), NEW first \in Nat,
           DescsFrom(r, ph, block, descs, first), descs # <<>>
    PROVE  DescsFrom(r, ph, block, Tail(descs), first + 1)
<1> DEFINE rest == Tail(descs)
<1>1. /\ Len(rest) + 1 = Len(descs) /\ Len(rest) \in Nat
      /\ \A k \in 1..Len(rest) : rest[k] = descs[k + 1]
    OBVIOUS
<1> HIDE DEF rest
<1>2. \A k \in 1..Len(rest) : k + 1 \in 1..Len(descs) /\ first + (k + 1) - 1 = (first + 1) + k - 1
    BY <1>1
<1>3. DescsFrom(r, ph, block, rest, first + 1)
    BY <1>1, <1>2 DEF DescsFrom
<1> QED
    BY <1>3 DEF rest

LEMMA SendsAppend ==
    ASSUME NEW r, NEW ph, NEW block, NEW sends \in Seq(SendWrs), NEW first \in Nat,
           NEW send \in SendWrs, SendsFrom(r, ph, block, sends, first),
           send.remote_address = Landing(r, ph, block, first + Len(sends)),
           send.sge.length = CutLength(r, block, first + Len(sends))
    PROVE  SendsFrom(r, ph, block, Append(sends, send), first)
<1> DEFINE more == Append(sends, send)
<1>1. /\ Len(more) = Len(sends) + 1 /\ Len(sends) \in Nat
      /\ more[Len(sends) + 1] = send
      /\ \A k \in 1..Len(sends) : more[k] = sends[k]
    OBVIOUS
<1> HIDE DEF more
<1>2. first + Len(sends) = first + (Len(sends) + 1) - 1
    BY <1>1
<1>3. \A k \in 1..Len(more) : k \in 1..Len(sends) \/ k = Len(sends) + 1
    BY <1>1
<1>4. SendsFrom(r, ph, block, more, first)
    BY <1>1, <1>2, <1>3 DEF SendsFrom
<1> QED
    BY <1>4 DEF more

LEMMA SendsTail ==
    ASSUME NEW r, NEW ph, NEW block, NEW sends \in Seq(SendWrs), NEW first \in Nat,
           SendsFrom(r, ph, block, sends, first), sends # <<>>
    PROVE  SendsFrom(r, ph, block, Tail(sends), first + 1)
<1> DEFINE rest == Tail(sends)
<1>1. /\ Len(rest) + 1 = Len(sends) /\ Len(rest) \in Nat
      /\ \A k \in 1..Len(rest) : rest[k] = sends[k + 1]
    OBVIOUS
<1> HIDE DEF rest
<1>2. \A k \in 1..Len(rest) : k + 1 \in 1..Len(sends) /\ first + (k + 1) - 1 = (first + 1) + k - 1
    BY <1>1
<1>3. SendsFrom(r, ph, block, rest, first + 1)
    BY <1>1, <1>2 DEF SendsFrom
<1> QED
    BY <1>3 DEF rest

LEMMA ListAppend ==
    ASSUME NEW r, NEW block, NEW list \in Seq(PostedRequests(RequestStates)), NEW first \in Nat,
           NEW posted \in PostedRequests(RequestStates), ListFrom(r, block, list, first),
           posted.element_offset = PieceStart(r, first + Len(list)),
           posted.element_count = CutLength(r, block, first + Len(list))
    PROVE  ListFrom(r, block, Append(list, posted), first)
<1> DEFINE more == Append(list, posted)
<1>1. /\ Len(more) = Len(list) + 1 /\ Len(list) \in Nat
      /\ more[Len(list) + 1] = posted
      /\ \A k \in 1..Len(list) : more[k] = list[k]
    OBVIOUS
<1> HIDE DEF more
<1>2. first + Len(list) = first + (Len(list) + 1) - 1
    BY <1>1
<1>3. \A k \in 1..Len(more) : k \in 1..Len(list) \/ k = Len(list) + 1
    BY <1>1
<1>4. ListFrom(r, block, more, first)
    BY <1>1, <1>2, <1>3 DEF ListFrom
<1> QED
    BY <1>4 DEF more

LEMMA ListTail ==
    ASSUME NEW r, NEW block, NEW list \in Seq(PostedRequests(RequestStates)), NEW first \in Nat,
           ListFrom(r, block, list, first), list # <<>>
    PROVE  ListFrom(r, block, Tail(list), first + 1)
<1> DEFINE rest == Tail(list)
<1>1. /\ Len(rest) + 1 = Len(list) /\ Len(rest) \in Nat
      /\ \A k \in 1..Len(rest) : rest[k] = list[k + 1]
    OBVIOUS
<1> HIDE DEF rest
<1>2. \A k \in 1..Len(rest) : k + 1 \in 1..Len(list) /\ first + (k + 1) - 1 = (first + 1) + k - 1
    BY <1>1
<1>3. ListFrom(r, block, rest, first + 1)
    BY <1>1, <1>2 DEF ListFrom
<1> QED
    BY <1>3 DEF rest

LEMMA SourcesAppend ==
    ASSUME NEW block, NEW sends \in Seq(SendWrs), NEW send \in SendWrs,
           SourcesIn(block, sends), WithinBlock(send.sge, block)
    PROVE  SourcesIn(block, Append(sends, send))
<1> DEFINE more == Append(sends, send)
<1>1. /\ Len(more) = Len(sends) + 1 /\ Len(sends) \in Nat
      /\ more[Len(sends) + 1] = send
      /\ \A k \in 1..Len(sends) : more[k] = sends[k]
    OBVIOUS
<1> HIDE DEF more
<1>2. \A k \in 1..Len(more) : k \in 1..Len(sends) \/ k = Len(sends) + 1
    BY <1>1
<1>3. SourcesIn(block, more)
    BY <1>1, <1>2 DEF SourcesIn
<1> QED
    BY <1>3 DEF more

LEMMA SourcesTail ==
    ASSUME NEW block, NEW sends \in Seq(SendWrs), sends # <<>>, SourcesIn(block, sends)
    PROVE  SourcesIn(block, Tail(sends)) /\ WithinBlock(Head(sends).sge, block)
<1> DEFINE rest == Tail(sends)
<1>1. /\ Len(rest) + 1 = Len(sends) /\ Len(rest) \in Nat
      /\ \A k \in 1..Len(rest) : rest[k] = sends[k + 1]
      /\ Head(sends) = sends[1]
    OBVIOUS
<1> HIDE DEF rest
<1>2. \A k \in 1..Len(rest) : k + 1 \in 1..Len(sends)
    BY <1>1
<1>3. SourcesIn(block, rest) /\ 1 \in 1..Len(sends)
    BY <1>1, <1>2 DEF SourcesIn
<1> QED
    BY <1>1, <1>3 DEF rest, SourcesIn

LEMMA WaitedForAppend ==
    ASSUME NEW list \in Seq(PostedRequests(RequestStates)), NEW recvs \in Seq(RecvWrs),
           NEW posted \in PostedRequests(RequestStates), NEW recv \in RecvWrs,
           WaitedFor(list, recvs), recv.wr_id = posted.request
    PROVE  WaitedFor(Append(list, posted), Append(recvs, recv))
<1> DEFINE list2 == Append(list, posted)
           recvs2 == Append(recvs, recv)
<1>1. /\ Len(list2) = Len(list) + 1 /\ Len(list) \in Nat
      /\ list2[Len(list) + 1] = posted
      /\ \A k \in 1..Len(list) : list2[k] = list[k]
    OBVIOUS
<1>2. /\ Len(recvs2) = Len(recvs) + 1 /\ Len(recvs) \in Nat
      /\ recvs2[Len(recvs) + 1] = recv
      /\ \A k \in 1..Len(recvs) : recvs2[k] = recvs[k]
    OBVIOUS
<1> HIDE DEF list2, recvs2
<1>3. Len(recvs) <= Len(list)
    BY DEF WaitedFor
<1>4. ASSUME NEW k \in 1..Len(recvs2)
      PROVE  recvs2[k].wr_id = list2[Len(list2) - Len(recvs2) + k].request
    <2>1. Len(list2) - Len(recvs2) + k = Len(list) - Len(recvs) + k
        BY <1>1, <1>2
    <2>2. CASE k \in 1..Len(recvs)
        <3>1. Len(list) - Len(recvs) + k \in 1..Len(list)
            BY <1>1, <1>2, <1>3, <2>2
        <3> QED
            BY <1>1, <1>2, <2>1, <2>2, <3>1 DEF WaitedFor
    <2>3. CASE k = Len(recvs) + 1
        <3>1. Len(list) - Len(recvs) + k = Len(list) + 1
            BY <1>1, <1>2, <2>3
        <3> QED
            BY <1>1, <1>2, <2>1, <2>3, <3>1
    <2> QED
        BY <1>2, <2>2, <2>3
<1>5. Len(recvs2) <= Len(list2)
    BY <1>1, <1>2, <1>3
<1>6. WaitedFor(list2, recvs2)
    BY <1>4, <1>5 DEF WaitedFor
<1> QED
    BY <1>6 DEF list2, recvs2

\* The fabric takes the oldest receive WR.
LEMMA WaitedForTaken ==
    ASSUME NEW list \in Seq(PostedRequests(RequestStates)), NEW recvs \in Seq(RecvWrs),
           WaitedFor(list, recvs), recvs # <<>>
    PROVE  WaitedFor(list, Tail(recvs))
<1> DEFINE rest == Tail(recvs)
<1>1. /\ Len(rest) + 1 = Len(recvs) /\ Len(rest) \in Nat /\ Len(list) \in Nat
      /\ Len(recvs) \in Nat
      /\ \A k \in 1..Len(rest) : rest[k] = recvs[k + 1]
    OBVIOUS
<1> HIDE DEF rest
<1>2. ASSUME NEW k \in 1..Len(rest)
      PROVE  rest[k].wr_id = list[Len(list) - Len(rest) + k].request
    <2>1. k + 1 \in 1..Len(recvs) /\ Len(list) - Len(recvs) + (k + 1) = Len(list) - Len(rest) + k
        <3>1. ASSUME NEW l \in Nat, NEW m \in Nat, NEW n \in Nat, n + 1 = m, NEW i \in 1..n
              PROVE  i + 1 \in 1..m /\ l - m + (i + 1) = l - n + i
            BY <3>1
        <3> QED
            BY <1>1, <3>1, Zenon
    <2> QED
        BY <1>1, <2>1 DEF WaitedFor
<1>3. Len(rest) <= Len(list)
    BY <1>1 DEF WaitedFor
<1>4. WaitedFor(list, rest)
    BY <1>2, <1>3 DEF WaitedFor
<1> QED
    BY <1>4 DEF rest

\* The program waits for the oldest request when its receive WR is gone.
LEMMA WaitedForDone ==
    ASSUME NEW list \in Seq(PostedRequests(RequestStates)), NEW recvs \in Seq(RecvWrs),
           WaitedFor(list, recvs), list # <<>>, Head(list).request \notin Named(recvs, "wr_id")
    PROVE  Len(recvs) < Len(list) /\ WaitedFor(Tail(list), recvs)
<1> DEFINE rest == Tail(list)
<1>1. /\ Len(rest) + 1 = Len(list) /\ Len(rest) \in Nat /\ Len(recvs) \in Nat
      /\ Len(list) \in Nat
      /\ \A k \in 1..Len(rest) : rest[k] = list[k + 1]
      /\ Head(list) = list[1]
    OBVIOUS
<1> HIDE DEF rest
<1>2. Len(recvs) < Len(list)
    <2>1. SUFFICES ASSUME Len(recvs) = Len(list) PROVE FALSE
        BY <1>1 DEF WaitedFor
    <2>2. 1 \in 1..Len(recvs) /\ Len(list) - Len(recvs) + 1 = 1
        BY <1>1, <2>1
    <2>3. recvs[1].wr_id = Head(list).request
        BY <1>1, <2>2 DEF WaitedFor
    <2> QED
        BY <2>2, <2>3 DEF Named
<1>3. ASSUME NEW k \in 1..Len(recvs)
      PROVE  recvs[k].wr_id = rest[Len(rest) - Len(recvs) + k].request
    <2>1. /\ Len(rest) - Len(recvs) + k \in 1..Len(rest)
          /\ (Len(rest) - Len(recvs) + k) + 1 = Len(list) - Len(recvs) + k
        <3>1. PICK l \in Nat, m \in Nat, n \in Nat :
                n = Len(rest) /\ m = Len(recvs) /\ l = Len(list)
            BY <1>1
        <3>2. n + 1 = l /\ m < l /\ k \in 1..m
            BY <1>1, <1>2, <3>1
        <3>3. n - m + k \in 1..n /\ (n - m + k) + 1 = l - m + k
            BY <3>2
        <3> QED
            BY <3>1, <3>3
    <2> QED
        BY <1>1, <2>1 DEF WaitedFor
<1>4. WaitedFor(rest, recvs)
    BY <1>1, <1>2, <1>3 DEF WaitedFor
<1> QED
    BY <1>2, <1>4 DEF rest

-----------------------------------------------------------------------------
(* Regions in use: where they lie with respect to a rank's blocks.           *)

LEMMA Neighbours ==
    ASSUME NEW r \in Ranks
    PROVE  /\ NextRank(r) \in Ranks /\ PrevRank(r) \in Ranks
           /\ NextRank(r) # r /\ PrevRank(r) # r
           /\ NextRank(PrevRank(r)) = r /\ PrevRank(NextRank(r)) = r
           /\ \A q \in Ranks : NextRank(q) = r => q = PrevRank(r)
<1>1. NextRank(r) \in Ranks /\ PrevRank(r) \in Ranks /\ NextRank(PrevRank(r)) = r
    BY RankFacts, PrevRankFacts
<1>2. PrevRank(r) # r
    <2>1. PrevRank(r) = Back(r, 1) /\ r = Back(r, 0) /\ 1 \in 0..Size /\ 0 \in 0..Size
        BY PrevIsBack, BackFacts, WorldAssumption DEF Size
    <2> QED
        BY <2>1, BackFacts
<1>3. \A q \in Ranks : NextRank(q) = r => q = PrevRank(r)
    BY <1>1, NextRankInjective
<1>4. NextRank(r) # r
    BY <1>2, <1>3
<1>5. PrevRank(NextRank(r)) = r
    BY <1>1, PrevRankFacts, NextRankInjective
<1> QED
    BY <1>1, <1>2, <1>3, <1>4, <1>5

\* The regions at rank r that the fabric may write are pieces of one block, rb,
\* of a phase ph: those announced from piece a on, those under way from piece b
\* on.  The regions the fabric may read lie in another block, sb.
PlacedAt(r, ph, rb, sb, a, b) ==
    LET s == PrevRank(r) IN
    /\ rb # sb
    /\ DescsFrom(r, ph, rb, control[r], a)
    /\ SendsFrom(r, ph, rb, send_queue[s], b)
    /\ b + Len(send_queue[s]) <= a
    /\ a + Len(control[r]) <= Pieces(r, rb)
    /\ a + Len(control[r]) <= b + Len(recv_queue[r])
    /\ ~qp_error[s] => a + Len(control[r]) = b + Len(recv_queue[r])
    /\ Unfailed(s) => b + Len(send_queue[s]) = a
    /\ SourcesIn(sb, send_queue[r]) /\ SourcesIn(sb, unacknowledged[r])

\* While no call of the rank has failed these are its current blocks.
Current(r, ph, rb, sb, a) ==
    Unfailed(r) => /\ ph = phase[r] /\ rb = RecvBlock(r) /\ sb = SendBlock(r)
                   /\ a + Len(control[r]) = RecvsPosted(r)

Placed(r) ==
    \E ph \in {ReduceScatter, AllGather}, rb \in Ranks, sb \in Ranks, a \in Nat, b \in Nat :
        PlacedAt(r, ph, rb, sb, a, b) /\ Current(r, ph, rb, sb, a)

Keeps(r) ==
    Unfailed(r)' => /\ Unfailed(r) /\ phase'[r] = phase[r]
                    /\ RecvBlock(r)' = RecvBlock(r) /\ SendBlock(r)' = SendBlock(r)
                    /\ RecvsPosted(r)' = RecvsPosted(r)

LEMMA QueueTypes ==
    ASSUME TypeInv, NEW r \in Ranks
    PROVE  /\ control[r] \in Seq(ControlMessages) /\ recv_queue[r] \in Seq(RecvWrs)
           /\ send_queue[r] \in Seq(SendWrs) /\ unacknowledged[r] \in Seq(SendWrs)
           /\ send_queue[PrevRank(r)] \in Seq(SendWrs)
           /\ control[NextRank(r)] \in Seq(ControlMessages)
           /\ recv_requests[r] \in Seq(PostedRequests(RequestStates))
           /\ Len(control[r]) \in Nat /\ Len(recv_queue[r]) \in Nat
           /\ Len(send_queue[r]) \in Nat /\ Len(send_queue[PrevRank(r)]) \in Nat
           /\ Len(recv_requests[r]) \in Nat
<1>1. /\ control[r] \in Seq(ControlMessages) /\ recv_queue[r] \in Seq(RecvWrs)
      /\ send_queue[r] \in Seq(SendWrs) /\ unacknowledged[r] \in Seq(SendWrs)
      /\ send_queue[PrevRank(r)] \in Seq(SendWrs)
      /\ control[NextRank(r)] \in Seq(ControlMessages)
      /\ recv_requests[r] \in Seq(PostedRequests(RequestStates))
    BY Neighbours DEF TypeInv, TypeOK, TypeOKVerbs, TypeOKProgram
<1> QED
    BY <1>1, LenProperties

LEMMA LessOne ==
    ASSUME NEW a \in Nat, NEW n \in Nat, NEW more, more = n + 1
    PROVE  (a + 1) + n = a + more /\ a + 1 \in Nat
OBVIOUS

LEMMA PlacedStable ==
    ASSUME NEW r \in Ranks, Placed(r), Keeps(r), Unfailed(PrevRank(r))' => Unfailed(PrevRank(r)),
           control'[r] = control[r], recv_queue'[r] = recv_queue[r],
           send_queue'[PrevRank(r)] = send_queue[PrevRank(r)],
           qp_error[PrevRank(r)] => qp_error'[PrevRank(r)],
           send_queue'[r] = send_queue[r], unacknowledged'[r] = unacknowledged[r]
    PROVE  Placed(r)'
<1>1. PICK ph \in {ReduceScatter, AllGather}, rb \in Ranks, sb \in Ranks, a \in Nat, b \in Nat :
         PlacedAt(r, ph, rb, sb, a, b) /\ Current(r, ph, rb, sb, a)
    BY DEF Placed
<1>2. PlacedAt(r, ph, rb, sb, a, b)'
    BY <1>1 DEF PlacedAt
<1>3. Current(r, ph, rb, sb, a)'
    BY <1>1 DEF Current, Keeps
<1> QED
    BY <1>2, <1>3 DEF Placed

\* Moves of a send from queue to queue of its sender, and off them.
LEMMA PlacedSources ==
    ASSUME TypeInv, NEW r \in Ranks, Placed(r), Keeps(r),
           Unfailed(PrevRank(r))' => Unfailed(PrevRank(r)),
           control'[r] = control[r], recv_queue'[r] = recv_queue[r],
           send_queue'[PrevRank(r)] = send_queue[PrevRank(r)],
           qp_error[PrevRank(r)] => qp_error'[PrevRank(r)],
           \/ /\ send_queue[r] # <<>> /\ send_queue'[r] = Tail(send_queue[r])
              /\ \/ unacknowledged'[r] = unacknowledged[r]
                 \/ unacknowledged'[r] = Append(unacknowledged[r], Head(send_queue[r]))
           \/ /\ unacknowledged[r] # <<>> /\ unacknowledged'[r] = Tail(unacknowledged[r])
              /\ send_queue'[r] = send_queue[r]
    PROVE  Placed(r)'
<1>1. PICK ph \in {ReduceScatter, AllGather}, rb \in Ranks, sb \in Ranks, a \in Nat, b \in Nat :
         PlacedAt(r, ph, rb, sb, a, b) /\ Current(r, ph, rb, sb, a)
    BY DEF Placed
<1>2. send_queue[r] \in Seq(SendWrs) /\ unacknowledged[r] \in Seq(SendWrs)
    BY QueueTypes
<1>3. SourcesIn(sb, send_queue[r]) /\ SourcesIn(sb, unacknowledged[r])
    BY <1>1 DEF PlacedAt
<1>4. ASSUME send_queue[r] # <<>>
      PROVE  /\ SourcesIn(sb, Tail(send_queue[r]))
             /\ SourcesIn(sb, Append(unacknowledged[r], Head(send_queue[r])))
    <2>1. Head(send_queue[r]) \in SendWrs
        BY <1>2, <1>4
    <2>2. SourcesIn(sb, Tail(send_queue[r])) /\ WithinBlock(Head(send_queue[r]).sge, sb)
        BY <1>2, <1>3, <1>4, SourcesTail, Zenon
    <2> QED
        BY <1>2, <1>3, <2>1, <2>2, SourcesAppend, Zenon
<1>6. unacknowledged[r] # <<>> => SourcesIn(sb, Tail(unacknowledged[r]))
    BY <1>2, <1>3, SourcesTail, Zenon
<1>7. SourcesIn(sb, send_queue'[r]) /\ SourcesIn(sb, unacknowledged'[r])
    BY <1>3, <1>4, <1>6
<1>8. PlacedAt(r, ph, rb, sb, a, b)'
    BY <1>1, <1>7 DEF PlacedAt
<1>9. Current(r, ph, rb, sb, a)'
    BY <1>1 DEF Current, Keeps
<1> QED
    BY <1>8, <1>9 DEF Placed

\* The previous rank fails and takes a descriptor with it.
LEMMA PlacedLoses ==
    ASSUME TypeInv, NEW r \in Ranks, Placed(r), Keeps(r), ~Unfailed(PrevRank(r))',
           control[r] # <<>>, control'[r] = Tail(control[r]), recv_queue'[r] = recv_queue[r],
           send_queue'[PrevRank(r)] = send_queue[PrevRank(r)],
           qp_error[PrevRank(r)] => qp_error'[PrevRank(r)],
           send_queue'[r] = send_queue[r], unacknowledged'[r] = unacknowledged[r]
    PROVE  Placed(r)'
<1>1. PICK ph \in {ReduceScatter, AllGather}, rb \in Ranks, sb \in Ranks, a \in Nat, b \in Nat :
         PlacedAt(r, ph, rb, sb, a, b) /\ Current(r, ph, rb, sb, a)
    BY DEF Placed
<1>2. /\ control[r] \in Seq(ControlMessages) /\ Len(send_queue[PrevRank(r)]) \in Nat
      /\ Len(recv_queue[r]) \in Nat /\ Len(control[r]) \in Nat
    BY QueueTypes
<1>3. Len(control'[r]) \in Nat /\ Len(control[r]) = Len(control'[r]) + 1
    BY <1>2
<1>4. DescsFrom(r, ph, rb, control'[r], a + 1)
    BY <1>1, <1>2, DescsTail DEF PlacedAt
<1>5. (a + 1) + Len(control'[r]) = a + Len(control[r]) /\ a + 1 \in Nat
    <2>1. PICK n \in Nat : Len(control'[r]) = n /\ Len(control[r]) = n + 1
        BY <1>3
    <2>2. (a + 1) + n = a + (n + 1) /\ a + 1 \in Nat
        OBVIOUS
    <2> QED
        BY <2>1, <2>2, Zenon
<1>6. PlacedAt(r, ph, rb, sb, a + 1, b)'
    <2>1. b + Len(send_queue[PrevRank(r)]) \in Nat
        BY <1>2
    <2>2. \A n \in Nat : n <= a => n <= a + 1
        OBVIOUS
    <2> QED
        BY <1>1, <1>4, <1>5, <2>1, <2>2 DEF PlacedAt
<1>7. Current(r, ph, rb, sb, a + 1)'
    BY <1>1, <1>5 DEF Current, Keeps
<1> QED
    BY <1>5, <1>6, <1>7 DEF Placed

\* A message reaches the rank, or is flushed.
LEMMA PlacedDelivers ==
    ASSUME TypeInv, NEW r \in Ranks, Placed(r), Keeps(r),
           Unfailed(PrevRank(r))' => Unfailed(PrevRank(r)),
           control'[r] = control[r], send_queue[PrevRank(r)] # <<>>,
           send_queue'[PrevRank(r)] = Tail(send_queue[PrevRank(r)]),
           qp_error'[PrevRank(r)] = qp_error[PrevRank(r)],
           \/ recv_queue[r] # <<>> /\ recv_queue'[r] = Tail(recv_queue[r])
           \/ qp_error[PrevRank(r)] /\ recv_queue'[r] = recv_queue[r],
           send_queue'[r] = send_queue[r], unacknowledged'[r] = unacknowledged[r]
    PROVE  Placed(r)'
<1> DEFINE s == PrevRank(r)
<1>1. PICK ph \in {ReduceScatter, AllGather}, rb \in Ranks, sb \in Ranks, a \in Nat, b \in Nat :
         PlacedAt(r, ph, rb, sb, a, b) /\ Current(r, ph, rb, sb, a)
    BY DEF Placed
<1>2. /\ send_queue[s] \in Seq(SendWrs) /\ recv_queue[r] \in Seq(RecvWrs)
      /\ Len(send_queue[s]) \in Nat /\ Len(recv_queue[r]) \in Nat /\ Len(control[r]) \in Nat
    BY QueueTypes
<1>3. Len(send_queue'[s]) \in Nat /\ Len(send_queue[s]) = Len(send_queue'[s]) + 1
    BY <1>2
<1>4. /\ Len(recv_queue'[r]) \in Nat
      /\ \/ Len(recv_queue[r]) = Len(recv_queue'[r]) + 1
         \/ qp_error[s] /\ Len(recv_queue[r]) = Len(recv_queue'[r])
    <2>1. CASE recv_queue[r] # <<>> /\ recv_queue'[r] = Tail(recv_queue[r])
        BY <1>2, <2>1
    <2>2. CASE qp_error[s] /\ recv_queue'[r] = recv_queue[r]
        BY <1>2, <2>2
    <2> QED
        BY <2>1, <2>2
<1>5. SendsFrom(r, ph, rb, send_queue'[s], b + 1)
    BY <1>1, <1>2, SendsTail DEF PlacedAt
<1>6. (b + 1) + Len(send_queue'[s]) = b + Len(send_queue[s]) /\ b + 1 \in Nat
    BY <1>3, LessOne, Zenon
<1>7. /\ a + Len(control[r]) <= (b + 1) + Len(recv_queue'[r])
      /\ ~qp_error[s] => a + Len(control[r]) = (b + 1) + Len(recv_queue'[r])
    <2>1. /\ a + Len(control[r]) <= b + Len(recv_queue[r])
          /\ ~qp_error[s] => a + Len(control[r]) = b + Len(recv_queue[r])
        BY <1>1 DEF PlacedAt
    <2>2. a + Len(control[r]) \in Nat
        BY <1>2
    <2>3. CASE Len(recv_queue[r]) = Len(recv_queue'[r]) + 1
        <3>1. (b + 1) + Len(recv_queue'[r]) = b + Len(recv_queue[r])
            BY <1>4, <2>3, LessOne
        <3> QED
            BY <2>1, <3>1
    <2>4. CASE qp_error[s] /\ Len(recv_queue[r]) = Len(recv_queue'[r])
        <3>1. \A x, y, z \in Nat : x <= y + z => x <= (y + 1) + z
            OBVIOUS
        <3> QED
            BY <1>4, <2>1, <2>2, <2>4, <3>1
    <2> QED
        BY <1>4, <2>3, <2>4
<1>8. PlacedAt(r, ph, rb, sb, a, b + 1)'
    BY <1>1, <1>5, <1>6, <1>7 DEF PlacedAt
<1>9. Current(r, ph, rb, sb, a)'
    BY <1>1 DEF Current, Keeps
<1> QED
    BY <1>6, <1>8, <1>9 DEF Placed
LEMMA OwnKeeps ==
    ASSUME NEW r \in Ranks, Unfailed(r), SameStep(r), RecvsPosted(r)' = RecvsPosted(r)
    PROVE  Keeps(r)
BY DEF Keeps, SameStep, RecvBlock, SendBlock

\* The rank posts a receive and announces it.
LEMMA PlacedReceives ==
    ASSUME TypeInv, NEW r \in Ranks, Located(r), Placed(r), Unfailed(r), Receives(r),
           Unfailed(PrevRank(r))' => Unfailed(PrevRank(r))
    PROVE  Placed(r)'
<1> DEFINE s == PrevRank(r)
<1>1. PICK ph \in {ReduceScatter, AllGather}, rb \in Ranks, sb \in Ranks, a \in Nat, b \in Nat :
         PlacedAt(r, ph, rb, sb, a, b) /\ Current(r, ph, rb, sb, a)
    BY DEF Placed
<1>2. /\ control[r] \in Seq(ControlMessages) /\ recv_queue[r] \in Seq(RecvWrs)
      /\ Len(control[r]) \in Nat /\ Len(recv_queue[r]) \in Nat
    BY QueueTypes
<1>3. /\ ph = phase[r] /\ rb = RecvBlock(r) /\ sb = SendBlock(r)
      /\ a + Len(control[r]) = RecvsPosted(r)
    BY <1>1 DEF Current
<1>4. PICK recv \in RecvWrs, descriptor \in ControlMessages :
          /\ recv_queue' = [recv_queue EXCEPT ![r] = Append(@, recv)]
          /\ descriptor.remote_address = Landing(r, phase[r], RecvBlock(r), RecvsPosted(r))
          /\ descriptor.bytes = CutLength(r, RecvBlock(r), RecvsPosted(r)) * ElementSize
          /\ control' = [control EXCEPT ![r] = Append(@, descriptor)]
    BY DEF Receives
<1>5. /\ control'[r] = Append(control[r], descriptor)
      /\ recv_queue'[r] = Append(recv_queue[r], recv)
    BY <1>4 DEF TypeInv, TypeOK, TypeOKVerbs
<1>6. DescsFrom(r, ph, rb, control'[r], a)
    <2>1. DescsFrom(r, ph, rb, Append(control[r], descriptor), a)
        <3>1. /\ DescsFrom(r, ph, rb, control[r], a)
              /\ descriptor.remote_address = Landing(r, ph, rb, a + Len(control[r]))
              /\ descriptor.bytes = CutLength(r, rb, a + Len(control[r])) * ElementSize
            BY <1>1, <1>3, <1>4 DEF PlacedAt
        <3> QED
            BY <1>2, <3>1, DescsAppend, Zenon
    <2> QED
        BY <1>5, <2>1
<1>7. PICK m \in Nat, n \in Nat :
         /\ Len(control[r]) = m /\ Len(control'[r]) = m + 1
         /\ Len(recv_queue[r]) = n /\ Len(recv_queue'[r]) = n + 1
    <2>1. Len(Append(control[r], descriptor)) = Len(control[r]) + 1
        BY <1>2
    <2>2. Len(Append(recv_queue[r], recv)) = Len(recv_queue[r]) + 1
        BY <1>2
    <2> QED
        BY <1>2, <1>5, <2>1, <2>2
<1>8. /\ a + m < Pieces(r, rb) /\ Pieces(r, rb) \in Nat
      /\ RecvsPosted(r)' = a + (m + 1)
    <2>1. RecvPieces(r) = Pieces(r, RecvBlock(r)) /\ RecvPieces(r) \in Nat
        BY CountFacts
    <2>2. (a + m) + 1 = a + (m + 1)
        OBVIOUS
    <2> QED
        BY <1>3, <1>7, <2>1, <2>2 DEF Receives
<1>9. /\ a + m <= b + n => a + (m + 1) <= b + (n + 1)
      /\ a + m = b + n => a + (m + 1) = b + (n + 1)
      /\ a + (m + 1) <= Pieces(r, rb)
    BY <1>8
<1>10. PlacedAt(r, ph, rb, sb, a, b)'
    <2>1. send_queue' = send_queue /\ unacknowledged' = unacknowledged /\ qp_error' = qp_error
        BY DEF Receives
    <2>2. /\ a + Len(control'[r]) <= Pieces(r, rb)
          /\ a + Len(control'[r]) <= b + Len(recv_queue'[r])
          /\ ~qp_error[s] => a + Len(control'[r]) = b + Len(recv_queue'[r])
        BY <1>1, <1>7, <1>9 DEF PlacedAt
    <2> QED
        BY <1>1, <1>6, <2>1, <2>2 DEF PlacedAt
<1>11. Current(r, ph, rb, sb, a)'
    <2>1. phase'[r] = phase[r] /\ step'[r] = step[r]
        BY DEF Receives, SameStep
    <2>2. RecvBlock(r)' = RecvBlock(r) /\ SendBlock(r)' = SendBlock(r)
        BY <2>1 DEF RecvBlock, SendBlock
    <2> QED
        BY <1>3, <1>7, <1>8, <2>1, <2>2 DEF Current
<1> QED
    BY <1>10, <1>11 DEF Placed

LEMMA CurrentBlocks ==
    ASSUME TypeInv, NEW r \in Ranks
    PROVE  SendBlock(r) \in Ranks /\ RecvBlock(r) \in Ranks
BY ReceivesSent DEF TypeInv, TypeOK, TypeOKProgram, SendBlock, RecvBlock

\* A piece the rank sends lies in the block it sends.
LEMMA SentPiece ==
    ASSUME NEW s \in Ranks, NEW block \in Ranks, NEW j \in Nat, j < Pieces(s, block)
    PROVE  /\ WithinBlock(Region("workbuf", BlockOffset(block) + PieceStart(s, j),
                                 CutLength(s, block, j)), block)
           /\ CutLength(s, block, j) \in Nat \ {0} /\ PieceStart(s, j) \in Nat
           /\ PieceStart(s, j) + CutLength(s, block, j) <= BlockCount(block)
<1>1. /\ BlockCount(block) \in Nat /\ BlockOffset(block) \in Nat
      /\ piece_elements(s) \in Nat \ {0}
    BY BlockBounds, ConfigTypes
<1>2. /\ PieceStart(s, j) \in Nat /\ CutLength(s, block, j) \in Nat \ {0}
      /\ PieceStart(s, j) + CutLength(s, block, j) <= BlockCount(block)
    BY <1>1, PieceInBlock DEF PieceStart, CutLength, Pieces
<1>3. \A o, x, l, c \in Nat : x + l <= c => o <= o + x /\ (o + x) + l <= o + c
    OBVIOUS
<1> QED
    BY <1>1, <1>2, <1>3 DEF WithinBlock, Region

\* The rank sends a piece of its own.
LEMMA PlacedSends ==
    ASSUME TypeInv, NEW r \in Ranks, Located(r), Placed(r), Unfailed(r), Sends(r),
           Unfailed(PrevRank(r))' => Unfailed(PrevRank(r))
    PROVE  Placed(r)'
<1>1. PICK ph \in {ReduceScatter, AllGather}, rb \in Ranks, sb \in Ranks, a \in Nat, b \in Nat :
         PlacedAt(r, ph, rb, sb, a, b) /\ Current(r, ph, rb, sb, a)
    BY DEF Placed
<1>2. send_queue[r] \in Seq(SendWrs)
    BY QueueTypes
<1>3. sb = SendBlock(r)
    BY <1>1 DEF Current
<1>4. PICK send \in SendWrs :
          /\ send.sge = Region("workbuf", BlockOffset(sb) + PieceStart(r, SendsPosted(r)),
                               CutLength(r, sb, SendsPosted(r)))
          /\ send_queue' = [send_queue EXCEPT ![r] = Append(@, send)]
    BY <1>3 DEF Sends
<1>5. /\ send_queue'[r] = Append(send_queue[r], send)
      /\ \A q \in Ranks \ {r} : send_queue'[q] = send_queue[q]
    BY <1>4 DEF TypeInv, TypeOK, TypeOKVerbs
<1>6. WithinBlock(send.sge, sb)
    BY <1>3, <1>4, CountFacts, SentPiece DEF Sends
<1>7. SourcesIn(sb, send_queue'[r])
    <2>1. SourcesIn(sb, send_queue[r])
        BY <1>1 DEF PlacedAt
    <2>2. SourcesIn(sb, Append(send_queue[r], send))
        BY <1>2, <1>6, <2>1, SourcesAppend, Zenon
    <2> QED
        BY <1>5, <2>2
<1>8. control'[r] = control[r] /\ send_queue'[PrevRank(r)] = send_queue[PrevRank(r)]
    BY <1>5, Neighbours DEF Sends, TypeInv, TypeOK, TypeOKVerbs
<1>9. PlacedAt(r, ph, rb, sb, a, b)'
    BY <1>1, <1>7, <1>8 DEF PlacedAt, Sends
<1>10. Keeps(r)
    BY OwnKeeps DEF Sends
<1>11. Current(r, ph, rb, sb, a)'
    BY <1>1, <1>8, <1>10 DEF Current, Keeps
<1> QED
    BY <1>9, <1>11 DEF Placed

LEMMA ProductCancel ==
    ASSUME NEW a \in Nat, NEW b \in Nat, NEW c \in Nat \ {0}, a * c = b * c
    PROVE  a = b
<1>1. ASSUME NEW x \in Nat, NEW y \in Nat, x < y
      PROVE  x * c < y * c
    <2>1. PICK d \in Nat : y = x + d /\ d > 0
        <3>1. y = x + (y - x) /\ y - x \in Nat /\ y - x > 0
            BY <1>1
        <3> QED
            BY <3>1
    <2>2. (x + d) * c = x * c + d * c /\ x * c \in Nat
        OBVIOUS
    <2>3. d * c > 0 /\ d * c \in Nat
        BY <2>1
    <2> QED
        BY <2>1, <2>2, <2>3
<1>2. a * c \in Nat /\ b * c \in Nat
    OBVIOUS
<1> QED
    BY <1>1, <1>2

\* The oldest descriptor is for a piece as long as the one that is sent for it.
LEMMA HeadAnnounces ==
    ASSUME TypeInv, NEW r \in Ranks, NEW ph, NEW rb \in Ranks, NEW sb, NEW a \in Nat,
           NEW b \in Nat, PlacedAt(r, ph, rb, sb, a, b), Located(PrevRank(r)),
           Sends(PrevRank(r))
    PROVE  /\ Head(control[r]).remote_address = Landing(r, ph, rb, a)
           /\ a < Pieces(r, rb)
           /\ CutLength(PrevRank(r), SendBlock(PrevRank(r)), SendsPosted(PrevRank(r)))
                = CutLength(r, rb, a)
<1> DEFINE s == PrevRank(r)
           j == SendsPosted(s)
<1>1. control[r] \in Seq(ControlMessages) /\ Len(control[r]) \in Nat
    BY QueueTypes
<1>2. s \in Ranks /\ NextRank(s) = r
    BY Neighbours
<1>3. control[r] # <<>> /\ Head(control[r]).bytes = CutLength(s, SendBlock(s), j) * ElementSize
    BY <1>2 DEF Sends
<1>4. Head(control[r]) = control[r][1] /\ 1 \in 1..Len(control[r]) /\ a + 1 - 1 = a
    BY <1>1, <1>3
<1>5. /\ Head(control[r]).remote_address = Landing(r, ph, rb, a)
      /\ Head(control[r]).bytes = CutLength(r, rb, a) * ElementSize
    BY <1>4 DEF PlacedAt, DescsFrom
<1>6. a < Pieces(r, rb)
    <2>1. a + Len(control[r]) <= Pieces(r, rb) /\ Pieces(r, rb) \in Nat /\ Len(control[r]) >= 1
        BY <1>1, <1>3, PiecesType DEF PlacedAt
    <2> QED
        BY <1>1, <2>1
<1>7. CutLength(s, SendBlock(s), j) \in Nat
    <2>1. j \in Nat /\ j < Pieces(s, SendBlock(s))
        BY <1>2, CountFacts DEF Sends
    <2>2. SendBlock(s) \in Ranks
        BY <1>2, CurrentBlocks
    <2> QED
        BY <1>2, <2>1, <2>2, SentPiece
<1>8. CutLength(r, rb, a) \in Nat
    BY <1>6, SentPiece
<1> QED
    BY <1>3, <1>5, <1>6, <1>7, <1>8, ProductCancel, CollectiveAssumption

\* The previous rank takes the oldest descriptor for a message of its own.
LEMMA PlacedTakes ==
    ASSUME TypeInv, NEW r \in Ranks, Placed(r), Keeps(r), Located(PrevRank(r)),
           Unfailed(PrevRank(r)), Sends(PrevRank(r))
    PROVE  Placed(r)'
<1> DEFINE s == PrevRank(r)
           j == SendsPosted(s)
<1>1. PICK ph \in {ReduceScatter, AllGather}, rb \in Ranks, sb \in Ranks, a \in Nat, b \in Nat :
         PlacedAt(r, ph, rb, sb, a, b) /\ Current(r, ph, rb, sb, a)
    BY DEF Placed
<1>2. /\ control[r] \in Seq(ControlMessages) /\ send_queue[s] \in Seq(SendWrs)
      /\ Len(control[r]) \in Nat /\ Len(send_queue[s]) \in Nat
    BY QueueTypes
<1>3. s \in Ranks /\ NextRank(s) = r /\ s # r
    BY Neighbours
<1>4. PICK send \in SendWrs :
          /\ send.sge = Region("workbuf", BlockOffset(SendBlock(s)) + PieceStart(s, j),
                               CutLength(s, SendBlock(s), j))
          /\ send.remote_address = Head(control[r]).remote_address
          /\ send_queue' = [send_queue EXCEPT ![s] = Append(@, send)]
    BY <1>3 DEF Sends
<1>5. control[r] # <<>> /\ control'[r] = Tail(control[r])
    BY <1>3 DEF Sends, TypeInv, TypeOK, TypeOKVerbs
<1>6. /\ send_queue'[s] = Append(send_queue[s], send)
      /\ send_queue'[r] = send_queue[r]
    BY <1>3, <1>4 DEF TypeInv, TypeOK, TypeOKVerbs
<1>7. PICK m \in Nat : Len(control[r]) = m + 1 /\ Len(control'[r]) = m
    <2>1. Len(Tail(control[r])) + 1 = Len(control[r]) /\ Len(Tail(control[r])) \in Nat
        BY <1>2, <1>5
    <2> QED
        BY <1>5, <2>1
<1>8. PICK n \in Nat : Len(send_queue[s]) = n /\ Len(send_queue'[s]) = n + 1
    <2>1. Len(Append(send_queue[s], send)) = Len(send_queue[s]) + 1
        BY <1>2
    <2> QED
        BY <1>2, <1>6, <2>1
<1>9. b + n = a
    BY <1>1, <1>8 DEF PlacedAt
<1>10. Head(control[r]).remote_address = Landing(r, ph, rb, a)
    BY <1>1, HeadAnnounces
<1>11. CutLength(s, SendBlock(s), j) = CutLength(r, rb, a)
    BY <1>1, HeadAnnounces
<1>12. DescsFrom(r, ph, rb, control'[r], a + 1)
    <2>1. DescsFrom(r, ph, rb, Tail(control[r]), a + 1)
        <3>1. DescsFrom(r, ph, rb, control[r], a)
            BY <1>1 DEF PlacedAt
        <3> QED
            BY <1>2, <1>5, <3>1, DescsTail, Zenon
    <2> QED
        BY <1>5, <2>1
<1>13. SendsFrom(r, ph, rb, send_queue'[s], b)
    <2>0. send.sge.length = CutLength(s, SendBlock(s), j)
        BY <1>4 DEF Region
    <2>1. /\ SendsFrom(r, ph, rb, send_queue[s], b)
          /\ send.remote_address = Landing(r, ph, rb, b + Len(send_queue[s]))
          /\ send.sge.length = CutLength(r, rb, b + Len(send_queue[s]))
        <3>1. b + Len(send_queue[s]) = a
            BY <1>8, <1>9
        <3>2. send.remote_address = Landing(r, ph, rb, a) /\ send.sge.length = CutLength(r, rb, a)
            BY <1>4, <1>10, <1>11, <2>0
        <3> QED
            BY <1>1, <3>1, <3>2 DEF PlacedAt
    <2>2. SendsFrom(r, ph, rb, Append(send_queue[s], send), b)
        BY <1>2, <2>1, SendsAppend, Zenon
    <2> QED
        BY <1>6, <2>2
<1>14. (a + 1) + m = a + (m + 1) /\ b + (n + 1) = a + 1 /\ a + 1 \in Nat
    BY <1>9
<1>15. PlacedAt(r, ph, rb, sb, a + 1, b)'
    <2>1. /\ recv_queue' = recv_queue /\ unacknowledged' = unacknowledged
          /\ qp_error' = qp_error
        BY DEF Sends
    <2>2. (a + 1) + Len(control'[r]) = a + Len(control[r])
        BY <1>7, <1>14
    <2>3. b + Len(send_queue'[s]) = a + 1 /\ b + Len(send_queue'[s]) <= a + 1
        BY <1>8, <1>14
    <2> QED
        BY <1>1, <1>6, <1>12, <1>13, <2>1, <2>2, <2>3 DEF PlacedAt
<1>16. Current(r, ph, rb, sb, a + 1)'
    BY <1>1, <1>7, <1>14 DEF Current, Keeps
<1> QED
    BY <1>14, <1>15, <1>16 DEF Placed

\* A rank that waits for nothing has nothing in any queue.
LEMMA NothingHeld ==
    ASSUME HeldInv, NEW r \in Ranks, Unfailed(r),
           recv_requests[r] = <<>>, send_requests[r] = <<>>
    PROVE  /\ recv_queue[r] = <<>> /\ send_queue[r] = <<>> /\ unacknowledged[r] = <<>>
           /\ control[r] = <<>> /\ send_queue[PrevRank(r)] = <<>>
<1>1. Tracked(r) /\ Kept(r) /\ TypeOKVerbs
    BY DEF HeldInv, HeldAt, LinkInv, TypeInv, TypeOK
<1>2. pending_requests[r] = {}
    BY <1>1, NamedEmpty DEF Kept, Held
<1>3. /\ Named(recv_queue[r], "wr_id") = {} /\ Named(send_queue[r], "wr_id") = {}
      /\ Named(unacknowledged[r], "wr_id") = {}
    BY <1>1, <1>2 DEF Tracked, Receiving, Sending, Acknowledged
<1>4. /\ recv_queue[r] \in Seq(RecvWrs) /\ send_queue[r] \in Seq(SendWrs)
      /\ unacknowledged[r] \in Seq(SendWrs)
    BY <1>1 DEF TypeOKVerbs
<1>5. recv_queue[r] = <<>> /\ send_queue[r] = <<>> /\ unacknowledged[r] = <<>>
    BY <1>3, <1>4, NamedNothing
<1>6. Covered(PrevRank(r)) /\ NextRank(PrevRank(r)) = r /\ PrevRank(r) \in Ranks
    BY PrevRankFacts DEF HeldInv
<1>7. /\ Len(send_queue[PrevRank(r)]) \in Nat /\ Len(control[r]) \in Nat
      /\ Len(send_queue[PrevRank(r)]) + Len(control[r]) <= Len(recv_queue[r])
    BY <1>1, <1>6, CoveredLengths DEF Covered
<1>8. /\ Len(control[r]) = 0 /\ control[r] \in Seq(ControlMessages)
      /\ Len(send_queue[PrevRank(r)]) = 0 /\ send_queue[PrevRank(r)] \in Seq(SendWrs)
    BY <1>1, <1>5, <1>6, <1>7 DEF TypeOKVerbs
<1> QED
    BY <1>5, <1>8, EmptySeq

\* The rank goes on to its next step, or call.
LEMMA PlacedAdvances ==
    ASSUME HeldInv, TypeInv', NEW r \in Ranks, Located(r)', Unfailed(r), Advances(r)
    PROVE  Placed(r)'
<1> DEFINE s == PrevRank(r)
<1>1. phase'[r] \in {ReduceScatter, AllGather} /\ step'[r] \in 0..(WorldSize - 2)
    BY DEF TypeInv, TypeOK, TypeOKProgram
<1>2. PICK ph \in {ReduceScatter, AllGather}, rb \in Ranks, sb \in Ranks :
         ph = phase'[r] /\ rb = RecvBlock(r)' /\ sb = SendBlock(r)' /\ rb # sb
    BY <1>1, ReceivesSent DEF RecvBlock, SendBlock
<1>3. /\ recv_queue'[r] = <<>> /\ send_queue'[r] = <<>> /\ unacknowledged'[r] = <<>>
      /\ control'[r] = <<>> /\ send_queue'[s] = <<>>
    BY NothingHeld DEF Advances, QueuesKept
<1>4. Pieces(r, rb) \in Nat
    BY PiecesType
<1>5. Len(<<>>) = 0 /\ 1..0 = {} /\ 0 + 0 = 0 /\ 0 \in Nat
    OBVIOUS
<1>6. PlacedAt(r, ph, rb, sb, 0, 0)'
    <2>1. /\ DescsFrom(r, ph, rb, <<>>, 0) /\ SendsFrom(r, ph, rb, <<>>, 0)
          /\ SourcesIn(sb, <<>>)
        BY <1>5 DEF DescsFrom, SendsFrom, SourcesIn
    <2>2. 0 <= Pieces(r, rb) /\ 0 <= 0
        BY <1>4
    <2> QED
        BY <1>2, <1>3, <1>5, <2>1, <2>2 DEF PlacedAt
<1>7. Current(r, ph, rb, sb, 0)'
    BY <1>2, <1>3, <1>5 DEF Current, Advances
<1> QED
    BY <1>5, <1>6, <1>7 DEF Placed

\* Only ranks none of whose calls has failed run.
LEMMA RunnerUnfailed ==
    ASSUME LinkInv, ContinueAfterError = FALSE, NEW r \in Ranks, RunRank(r)
    PROVE  Unfailed(r)
<1> SUFFICES ASSUME ~Unfailed(r) PROVE FALSE
    OBVIOUS
<1>1. pc[r] = "idle" /\ ~MayCall(r)
    BY DEF LinkInv, FailedStaysOut, MayCall, Unfailed
<1>2. Awaited(r) = {}
    BY <1>1 DEF Awaited
<1>3. CASE Proceed(r)
    BY <1>1, <1>3 DEF Proceed, RefuseCall, BeginCall, TagOutOfRange, RecvToPost, SendToPost,
                      BeginBatch, NextStep, BeginAllGather, ReturnSuccess, EndPostRecv,
                      EndPostSend, EndWaitRecv, EndBatch
<1>4. ~PostRecv(r) /\ ~PostSend(r)
    BY <1>1 DEF PostRecv, PostSend, RecvToPost, SendToPost
<1>5. ~Poll(r) /\ ~PollFails(r) /\ ~Wait(r)
    BY <1>2 DEF Poll, PollFails, Wait
<1> QED
    BY <1>3, <1>4, <1>5 DEF RunRank

\* What a step leaves of the position of another rank.
SamePosition(q) ==
    /\ Located(q)' = Located(q) /\ SameStep(q)
    /\ SendsPosted(q)' = SendsPosted(q) /\ RecvsPosted(q)' = RecvsPosted(q)
    /\ recv_requests'[q] = recv_requests[q] /\ Unfailed(q)' = Unfailed(q)
    /\ pc'[q] = pc[q]

LEMMA PositionKept ==
    ASSUME NEW q, pc'[q] = pc[q], phase'[q] = phase[q], step'[q] = step[q],
           batch'[q] = batch[q], piece'[q] = piece[q], calls'[q] = calls[q],
           recv_requests'[q] = recv_requests[q], returned'[q] = returned[q]
    PROVE  SamePosition(q)
<1>1. Located(q)' = Located(q)
    BY DEF Located, BeginPiece, EndPiece
<1>2. SendPieces(q)' = SendPieces(q) /\ RecvPieces(q)' = RecvPieces(q)
    BY DEF SendPieces, RecvPieces, SendBlock, RecvBlock
<1>3. SendsPosted(q)' = SendsPosted(q) /\ RecvsPosted(q)' = RecvsPosted(q)
    BY <1>2 DEF SendsPosted, RecvsPosted, BeginPiece, EndPiece
<1>4. SameStep(q) /\ Unfailed(q)' = Unfailed(q)
    BY DEF SameStep, StepsDone, Unfailed, LastStatus
<1> QED
    BY <1>1, <1>3, <1>4 DEF SamePosition

LEMMA PositionKeeps ==
    ASSUME NEW q \in Ranks, SamePosition(q)
    PROVE  Keeps(q)
BY DEF Keeps, SamePosition, SameStep, RecvBlock, SendBlock

\* The receives the call waits for: pieces one after the other, the last ones
\* still posted, so the oldest to be waited for have arrived.
Awaiting(r) ==
    Unfailed(r) =>
        /\ Len(recv_requests[r]) <= RecvsPosted(r)
        /\ ListFrom(r, RecvBlock(r), recv_requests[r], RecvsPosted(r) - Len(recv_requests[r]))
        /\ WaitedFor(recv_requests[r], recv_queue[r])

PlacedInv == HeldInv /\ \A r \in Ranks : Located(r) /\ Placed(r) /\ Awaiting(r)

\* What Placed(q) reads of the transports.
SameQueues(q) ==
    /\ control'[q] = control[q] /\ recv_queue'[q] = recv_queue[q]
    /\ send_queue'[PrevRank(q)] = send_queue[PrevRank(q)]
    /\ qp_error[PrevRank(q)] => qp_error'[PrevRank(q)]
    /\ send_queue'[q] = send_queue[q] /\ unacknowledged'[q] = unacknowledged[q]

LEMMA RunPosition ==
    ASSUME TypeInv, NEW r \in Ranks, RunRank(r), NEW q \in Ranks \ {r}
    PROVE  SamePosition(q) /\ recv_queue'[q] = recv_queue[q]
BY RunOthers, PositionKept DEF ProgramOthers, VerbsOthers, SameRequests

LEMMA RunQueues ==
    ASSUME TypeInv, NEW r \in Ranks,
           Stays(r) \/ Receives(r) \/ Sends(r) \/ Consumes(r) \/ Advances(r) \/ GivesUp(r)
    PROVE  /\ Stays(r) \/ Consumes(r) \/ Advances(r) => \A q \in Ranks : SameQueues(q)
           /\ Receives(r) => \A q \in Ranks \ {r} : SameQueues(q)
           /\ Sends(r) => \A q \in Ranks \ {r, NextRank(r)} : SameQueues(q)
           /\ GivesUp(r) =>
                /\ \A q \in Ranks \ {NextRank(r)} : SameQueues(q)
                /\ LET n == NextRank(r) IN
                   SameQueues(n) \/ /\ control[n] # <<>> /\ control'[n] = Tail(control[n])
                                    /\ UNCHANGED <<recv_queue, send_queue, qp_error,
                                                   unacknowledged>>
<1>1. /\ control \in [Ranks -> Seq(ControlMessages)] /\ recv_queue \in [Ranks -> Seq(RecvWrs)]
      /\ send_queue \in [Ranks -> Seq(SendWrs)] /\ unacknowledged \in [Ranks -> Seq(SendWrs)]
    BY DEF TypeInv, TypeOK, TypeOKVerbs
<1>2. NextRank(r) \in Ranks /\ NextRank(r) # r
      /\ \A q \in Ranks : PrevRank(q) \in Ranks /\ (PrevRank(q) = r => q = NextRank(r))
    BY Neighbours
<1>3. Stays(r) \/ Consumes(r) \/ Advances(r) => \A q \in Ranks : SameQueues(q)
    BY DEF Stays, Consumes, Advances, QueuesKept, SameQueues
<1>4. Receives(r) => \A q \in Ranks \ {r} : SameQueues(q)
    BY <1>1 DEF Receives, SameQueues
<1>5. ASSUME Sends(r), NEW q \in Ranks \ {r, NextRank(r)}
      PROVE  SameQueues(q)
    <2>1. PrevRank(q) \in Ranks /\ PrevRank(q) # r
        BY <1>2
    <2>2. /\ \A p \in Ranks \ {r} : send_queue'[p] = send_queue[p]
          /\ control'[q] = control[q]
        BY <1>1, <1>5 DEF Sends
    <2> QED
        BY <1>5, <2>1, <2>2 DEF Sends, SameQueues
<1>6. ASSUME GivesUp(r)
      PROVE  /\ \A q \in Ranks \ {NextRank(r)} : SameQueues(q)
             /\ LET n == NextRank(r) IN
                SameQueues(n) \/ /\ control[n] # <<>> /\ control'[n] = Tail(control[n])
                                 /\ UNCHANGED <<recv_queue, send_queue, qp_error,
                                                unacknowledged>>
    <2>1. UNCHANGED <<recv_queue, send_queue, unacknowledged, qp_error>>
        BY <1>6 DEF GivesUp
    <2>2. CASE UNCHANGED control
        BY <2>1, <2>2 DEF SameQueues
    <2>3. CASE /\ control[NextRank(r)] # <<>>
               /\ control' = [control EXCEPT ![NextRank(r)] = Tail(@)]
        BY <1>1, <1>2, <2>1, <2>3 DEF SameQueues
    <2> QED
        BY <1>6, <2>2, <2>3 DEF GivesUp
<1> QED
    BY <1>3, <1>4, <1>5, <1>6

LEMMA PlacedSame ==
    ASSUME NEW q \in Ranks, Placed(q), Keeps(q), SameQueues(q),
           Unfailed(PrevRank(q))' => Unfailed(PrevRank(q))
    PROVE  Placed(q)'
BY PlacedStable DEF SameQueues

LEMMA RunPlaced ==
    ASSUME PlacedInv, TypeInv', ContinueAfterError = FALSE, NEW r \in Ranks, RunRank(r)
    PROVE  \A q \in Ranks : Located(q)' /\ Placed(q)'
<1>1. HeldInv /\ TypeInv /\ LinkInv
    BY DEF PlacedInv, HeldInv, LinkInv
<1>2. /\ Unfailed(r)
      /\ \A q \in Ranks : Unfailed(q)' => Unfailed(q)
    BY <1>1, RunUnfailed, RunnerUnfailed DEF LinkInv
<1>3. /\ Located(r)'
      /\ Stays(r) \/ Receives(r) \/ Sends(r) \/ Consumes(r) \/ Advances(r) \/ GivesUp(r)
    BY <1>1, RunEffects DEF PlacedInv
<1>4. \A q \in Ranks : PrevRank(q) \in Ranks /\ Placed(q) /\ Located(q)
    BY Neighbours DEF PlacedInv
<1>5. ASSUME NEW q \in Ranks \ {r} PROVE Located(q)' /\ Keeps(q)
    BY <1>1, <1>4, RunPosition, PositionKeeps DEF SamePosition
<1>6. Placed(r)'
    <2>1. CASE Stays(r) \/ Consumes(r)
        BY <1>1, <1>2, <1>4, <2>1, RunQueues, OwnKeeps, PlacedSame DEF Stays, Consumes
    <2>2. CASE Receives(r)
        BY <1>1, <1>2, <1>4, <2>2, PlacedReceives
    <2>3. CASE Sends(r)
        BY <1>1, <1>2, <1>4, <2>3, PlacedSends
    <2>4. CASE Advances(r)
        BY <1>1, <1>2, <1>3, <2>4, PlacedAdvances
    <2>5. CASE GivesUp(r)
        <3>1. Keeps(r) /\ r # NextRank(r)
            BY <2>5, Neighbours DEF GivesUp, Keeps
        <3> QED
            BY <1>1, <1>2, <1>4, <2>5, <3>1, RunQueues, PlacedSame
    <2> QED
        BY <1>3, <2>1, <2>2, <2>3, <2>4, <2>5
<1>7. ASSUME NEW q \in Ranks \ {r} PROVE Placed(q)'
    <2>1. CASE SameQueues(q)
        BY <1>2, <1>4, <1>5, <2>1, PlacedSame
    <2>2. CASE Sends(r) /\ q = NextRank(r)
        <3>1. PrevRank(q) = r
            BY <2>2, Neighbours
        <3> QED
            BY <1>1, <1>2, <1>4, <1>5, <2>2, <3>1, PlacedTakes
    <2>3. CASE /\ GivesUp(r) /\ q = NextRank(r)
               /\ control[q] # <<>> /\ control'[q] = Tail(control[q])
               /\ UNCHANGED <<recv_queue, send_queue, qp_error, unacknowledged>>
        <3>1. PrevRank(q) = r /\ ~Unfailed(r)'
            BY <2>3, Neighbours DEF GivesUp
        <3>2. ~Unfailed(PrevRank(q))'
            BY <3>1
        <3> QED
            BY <1>1, <1>4, <1>5, <2>3, <3>2, PlacedLoses
    <2> QED
        BY <1>1, <1>3, <2>1, <2>2, <2>3, RunQueues
<1> QED
    BY <1>3, <1>5, <1>6, <1>7

LEMMA FabricPlaced ==
    ASSUME PlacedInv, TypeInv', NEW s \in Ranks, Fabric(s)
    PROVE  \A q \in Ranks : Located(q)' /\ Placed(q)'
<1> DEFINE d == NextRank(s)
<1>1. TypeInv
    BY DEF PlacedInv, HeldInv, LinkInv
<1>2. UNCHANGED program_vars
    BY DEF Fabric
<1>3. ASSUME NEW q \in Ranks
      PROVE  /\ Keeps(q) /\ Located(q)' /\ Placed(q)
             /\ Unfailed(PrevRank(q))' => Unfailed(PrevRank(q))
    <2>1. SamePosition(q)
        BY <1>2, PositionKept DEF program_vars
    <2>2. Unfailed(PrevRank(q))' = Unfailed(PrevRank(q))
        BY <1>2 DEF program_vars, Unfailed, LastStatus
    <2> QED
        BY <2>1, <2>2, PositionKeeps DEF SamePosition, PlacedInv
<1>4. /\ control \in [Ranks -> Seq(ControlMessages)] /\ recv_queue \in [Ranks -> Seq(RecvWrs)]
      /\ send_queue \in [Ranks -> Seq(SendWrs)] /\ unacknowledged \in [Ranks -> Seq(SendWrs)]
      /\ qp_error \in [Ranks -> BOOLEAN]
    BY <1>1 DEF TypeInv, TypeOK, TypeOKVerbs
<1>5. /\ d \in Ranks /\ d # s /\ PrevRank(d) = s
      /\ \A q \in Ranks : PrevRank(q) \in Ranks /\ (PrevRank(q) = s => q = d)
      /\ PrevRank(s) # s
    BY Neighbours
<1>6. CASE Deliver(s)
    <2>1. /\ send_queue[s] # <<>> /\ recv_queue[d] # <<>>
          /\ send_queue' = [send_queue EXCEPT ![s] = Tail(@)]
          /\ recv_queue' = [recv_queue EXCEPT ![d] = Tail(@)]
          /\ unacknowledged' = [unacknowledged EXCEPT ![s] = Append(@, Head(send_queue[s]))]
          /\ UNCHANGED <<control, qp_error>>
        BY <1>6 DEF Deliver
    <2>2. Placed(s)'
        <3>1. /\ control'[s] = control[s] /\ recv_queue'[s] = recv_queue[s]
              /\ send_queue'[PrevRank(s)] = send_queue[PrevRank(s)]
              /\ qp_error[PrevRank(s)] => qp_error'[PrevRank(s)]
              /\ send_queue'[s] = Tail(send_queue[s])
              /\ unacknowledged'[s] = Append(unacknowledged[s], Head(send_queue[s]))
            BY <1>4, <1>5, <2>1
        <3> QED
            BY <1>1, <1>3, <2>1, <3>1, PlacedSources
    <2>3. Placed(d)'
        <3>1. /\ control'[d] = control[d] /\ send_queue'[s] = Tail(send_queue[s])
              /\ qp_error'[s] = qp_error[s] /\ recv_queue'[d] = Tail(recv_queue[d])
              /\ send_queue'[d] = send_queue[d] /\ unacknowledged'[d] = unacknowledged[d]
            BY <1>4, <1>5, <2>1
        <3> QED
            BY <1>1, <1>3, <1>5, <2>1, <3>1, PlacedDelivers
    <2>4. ASSUME NEW q \in Ranks \ {s, d} PROVE Placed(q)'
        <3>1. PrevRank(q) \in Ranks /\ PrevRank(q) # s
            BY <1>5
        <3>2. SameQueues(q)
            BY <1>4, <2>1, <3>1 DEF SameQueues
        <3> QED
            BY <1>3, <3>2, PlacedSame
    <2> QED
        BY <1>3, <2>2, <2>3, <2>4
<1>7. ASSUME UNCHANGED <<control, recv_queue, send_queue, qp_error>>,
             unacknowledged[s] # <<>>,
             unacknowledged' = [unacknowledged EXCEPT ![s] = Tail(@)]
      PROVE  \A q \in Ranks : Placed(q)'
    <2>1. Placed(s)'
        <3>1. unacknowledged'[s] = Tail(unacknowledged[s])
            BY <1>4, <1>7
        <3> QED
            BY <1>1, <1>3, <1>7, <3>1, PlacedSources
    <2>2. ASSUME NEW q \in Ranks \ {s} PROVE Placed(q)'
        <3>1. SameQueues(q)
            BY <1>4, <1>7 DEF SameQueues
        <3> QED
            BY <1>3, <3>1, PlacedSame
    <2> QED
        BY <2>1, <2>2
<1>8. CASE Acknowledge(s)
    BY <1>3, <1>7, <1>8 DEF Acknowledge
<1>9. CASE BreakLink(s)
    <2>1. \A q \in Ranks : SameQueues(q)
        <3>1. \A p \in Ranks : qp_error[p] => qp_error'[p]
            BY <1>4, <1>9 DEF BreakLink
        <3> QED
            BY <1>5, <1>9, <3>1 DEF BreakLink, SameQueues
    <2> QED
        BY <1>3, <2>1, PlacedSame
<1>10. CASE FlushSend(s)
    <2>1. CASE unacknowledged[s] # <<>>
        BY <1>3, <1>7, <1>10, <2>1 DEF FlushSend
    <2>2. CASE unacknowledged[s] = <<>>
        <3>1. /\ send_queue' = [send_queue EXCEPT ![s] = Tail(@)]
              /\ UNCHANGED <<unacknowledged, recv_queue, control, qp_error>>
              /\ qp_error[s] /\ unacknowledged[s] \o send_queue[s] # <<>>
            BY <1>10, <2>2 DEF FlushSend
        <3>2. send_queue[s] # <<>>
            BY <1>4, <2>2, <3>1
        <3>3. Placed(s)'
            <4>1. /\ send_queue'[PrevRank(s)] = send_queue[PrevRank(s)]
                  /\ send_queue'[s] = Tail(send_queue[s])
                BY <1>4, <1>5, <3>1
            <4> QED
                BY <1>1, <1>3, <3>1, <3>2, <4>1, PlacedSources
        <3>4. Placed(d)'
            <4>1. send_queue'[s] = Tail(send_queue[s]) /\ send_queue'[d] = send_queue[d]
                BY <1>4, <1>5, <3>1
            <4> QED
                BY <1>1, <1>3, <1>5, <3>1, <3>2, <4>1, PlacedDelivers
        <3>5. ASSUME NEW q \in Ranks \ {s, d} PROVE Placed(q)'
            <4>1. PrevRank(q) \in Ranks /\ PrevRank(q) # s
                BY <1>5
            <4>2. SameQueues(q)
                BY <1>4, <3>1, <4>1 DEF SameQueues
            <4> QED
                BY <1>3, <4>2, PlacedSame
        <3> QED
            BY <1>3, <3>3, <3>4, <3>5
    <2> QED
        BY <2>1, <2>2
<1> QED
    BY <1>6, <1>8, <1>9, <1>10 DEF Fabric

LEMMA AwaitingStable ==
    ASSUME NEW q \in Ranks, Awaiting(q), Unfailed(q)' => Unfailed(q), SameStep(q),
           RecvsPosted(q)' = RecvsPosted(q), recv_requests'[q] = recv_requests[q],
           recv_queue'[q] = recv_queue[q]
    PROVE  Awaiting(q)'
<1>1. RecvBlock(q)' = RecvBlock(q)
    BY DEF SameStep, RecvBlock
<1> QED
    BY <1>1 DEF Awaiting

LEMMA AwaitingReceives ==
    ASSUME TypeInv, NEW r \in Ranks, Located(r), Unfailed(r), Awaiting(r), Receives(r)
    PROVE  Awaiting(r)'
<1> DEFINE list == recv_requests[r]
           j == RecvsPosted(r)
<1>1. /\ Len(list) <= j /\ ListFrom(r, RecvBlock(r), list, j - Len(list))
      /\ WaitedFor(list, recv_queue[r])
    BY DEF Awaiting
<1>2. /\ list \in Seq(PostedRequests(RequestStates)) /\ recv_queue[r] \in Seq(RecvWrs)
      /\ Len(list) \in Nat /\ j \in Nat
    BY QueueTypes, CountFacts
<1>3. PICK state \in RequestStates, recv \in RecvWrs :
         /\ recv_requests'[r] =
              Append(list, PostedRequest(state, PieceStart(r, j), CutLength(r, RecvBlock(r), j)))
         /\ recv.wr_id = state
         /\ recv_queue' = [recv_queue EXCEPT ![r] = Append(@, recv)]
    BY DEF Receives
<1> DEFINE posted == PostedRequest(state, PieceStart(r, j), CutLength(r, RecvBlock(r), j))
<1>4. /\ posted \in PostedRequests(RequestStates) /\ posted.request = state
      /\ posted.element_offset = PieceStart(r, j)
      /\ posted.element_count = CutLength(r, RecvBlock(r), j)
    <2>1. /\ RecvBlock(r) \in Ranks /\ j < Pieces(r, RecvBlock(r))
        BY CurrentBlocks, CountFacts DEF Receives
    <2>2. PieceStart(r, j) \in Nat /\ CutLength(r, RecvBlock(r), j) \in Nat
        BY <1>2, <2>1, SentPiece
    <2> QED
        BY <2>2 DEF PostedRequest, PostedRequests
<1> HIDE DEF posted
<1>5. recv_requests'[r] = Append(list, posted) /\ recv_queue'[r] = Append(recv_queue[r], recv)
    BY <1>3 DEF posted, TypeInv, TypeOK, TypeOKVerbs
<1>6. PICK n \in Nat : Len(list) = n /\ Len(recv_requests'[r]) = n + 1
    <2>1. Len(Append(list, posted)) = Len(list) + 1
        BY <1>2
    <2> QED
        BY <1>2, <1>5, <2>1
<1> HIDE DEF j
<1>7. /\ j - n \in Nat /\ (j - n) + n = j /\ (j + 1) - (n + 1) = j - n /\ n + 1 <= j + 1
    BY <1>1, <1>2, <1>6
<1>8. ListFrom(r, RecvBlock(r), recv_requests'[r], j - n)
    <2>1. /\ ListFrom(r, RecvBlock(r), list, j - n)
          /\ posted.element_offset = PieceStart(r, (j - n) + Len(list))
          /\ posted.element_count = CutLength(r, RecvBlock(r), (j - n) + Len(list))
        BY <1>1, <1>4, <1>6, <1>7
    <2>2. ListFrom(r, RecvBlock(r), Append(list, posted), j - n)
        BY <1>2, <1>4, <1>7, <2>1, ListAppend, Zenon
    <2> QED
        BY <1>5, <2>2
<1>9. WaitedFor(recv_requests'[r], recv_queue'[r])
    <2>1. recv.wr_id = posted.request
        BY <1>3, <1>4
    <2>2. WaitedFor(Append(list, posted), Append(recv_queue[r], recv))
        BY <1>1, <1>2, <1>4, <2>1, WaitedForAppend, Zenon
    <2> QED
        BY <1>5, <2>2
<1>10. RecvsPosted(r)' = j + 1 /\ RecvBlock(r)' = RecvBlock(r)
    BY DEF Receives, SameStep, RecvBlock, j
<1> QED
    BY <1>6, <1>7, <1>8, <1>9, <1>10 DEF Awaiting

LEMMA AwaitingConsumes ==
    ASSUME HeldInv, NEW r \in Ranks, Located(r), Unfailed(r), Awaiting(r), Consumes(r)
    PROVE  /\ Awaiting(r)'
           /\ Len(recv_queue[r]) < Len(recv_requests[r])
<1> DEFINE list == recv_requests[r]
           j == RecvsPosted(r)
<1>0. TypeInv /\ Tracked(r)
    BY DEF HeldInv, LinkInv
<1>1. /\ Len(list) <= j /\ ListFrom(r, RecvBlock(r), list, j - Len(list))
      /\ WaitedFor(list, recv_queue[r])
    BY DEF Awaiting
<1>2. /\ list \in Seq(PostedRequests(RequestStates)) /\ recv_queue[r] \in Seq(RecvWrs)
      /\ Len(list) \in Nat /\ j \in Nat
    BY <1>0, QueueTypes, CountFacts
<1>3. /\ list # <<>> /\ recv_requests'[r] = Tail(list) /\ recv_queue'[r] = recv_queue[r]
      /\ Head(list).request \in completed[r]
    BY DEF Consumes, QueuesKept
<1>4. Head(list).request \notin Named(recv_queue[r], "wr_id")
    BY <1>0, <1>3 DEF Tracked, Receiving
<1>5. Len(recv_queue[r]) < Len(list) /\ WaitedFor(Tail(list), recv_queue[r])
    BY <1>1, <1>2, <1>3, <1>4, WaitedForDone, Zenon
<1>6. PICK n \in Nat : Len(list) = n + 1 /\ Len(recv_requests'[r]) = n
    <2>1. Len(Tail(list)) + 1 = Len(list) /\ Len(Tail(list)) \in Nat
        BY <1>2, <1>3
    <2> QED
        BY <1>3, <2>1
<1> HIDE DEF j
<1>7. j - (n + 1) \in Nat /\ (j - (n + 1)) + 1 = j - n /\ n <= j
    BY <1>1, <1>2, <1>6
<1>8. ListFrom(r, RecvBlock(r), recv_requests'[r], j - n)
    <2>1. ListFrom(r, RecvBlock(r), list, j - (n + 1))
        BY <1>1, <1>6
    <2>2. ListFrom(r, RecvBlock(r), Tail(list), (j - (n + 1)) + 1)
        BY <1>2, <1>3, <1>7, <2>1, ListTail, Zenon
    <2> QED
        BY <1>3, <1>7, <2>2
<1>9. RecvsPosted(r)' = j /\ RecvBlock(r)' = RecvBlock(r)
    BY DEF Consumes, SameStep, RecvBlock, j
<1>10. Awaiting(r)'
    BY <1>3, <1>5, <1>6, <1>7, <1>8, <1>9 DEF Awaiting
<1> QED
    BY <1>5, <1>10

LEMMA AwaitingAdvances ==
    ASSUME HeldInv, TypeInv', NEW r \in Ranks, Unfailed(r), Advances(r)
    PROVE  Awaiting(r)'
<1>1. recv_requests'[r] = <<>> /\ recv_queue'[r] = <<>> /\ RecvsPosted(r)' = 0
    BY NothingHeld DEF Advances, QueuesKept
<1>2. Len(<<>>) = 0 /\ 1..0 = {} /\ 0 <= 0
    OBVIOUS
<1> QED
    BY <1>1, <1>2 DEF Awaiting, ListFrom, WaitedFor

LEMMA RunAwaiting ==
    ASSUME PlacedInv, TypeInv', ContinueAfterError = FALSE, NEW r \in Ranks, RunRank(r)
    PROVE  \A q \in Ranks : Awaiting(q)'
<1>1. HeldInv /\ TypeInv /\ LinkInv
    BY DEF PlacedInv, HeldInv, LinkInv
<1>2. /\ Unfailed(r)
      /\ \A q \in Ranks : Unfailed(q)' => Unfailed(q)
    BY <1>1, RunUnfailed, RunnerUnfailed DEF LinkInv
<1>3. /\ Located(r) /\ \A q \in Ranks : Awaiting(q)
      /\ Stays(r) \/ Receives(r) \/ Sends(r) \/ Consumes(r) \/ Advances(r) \/ GivesUp(r)
    BY <1>1, RunEffects DEF PlacedInv
<1>4. ASSUME NEW q \in Ranks \ {r} PROVE Awaiting(q)'
    <2>1. SamePosition(q) /\ recv_queue'[q] = recv_queue[q]
        BY <1>1, RunPosition
    <2> QED
        BY <1>2, <1>3, <2>1, AwaitingStable DEF SamePosition
<1>5. CASE Stays(r) \/ Sends(r)
    BY <1>2, <1>3, <1>4, <1>5, AwaitingStable DEF Stays, Sends, QueuesKept
<1>6. CASE Receives(r)
    BY <1>1, <1>2, <1>3, <1>4, <1>6, AwaitingReceives
<1>7. CASE Consumes(r)
    BY <1>1, <1>2, <1>3, <1>4, <1>7, AwaitingConsumes
<1>8. CASE Advances(r)
    BY <1>1, <1>2, <1>3, <1>4, <1>8, AwaitingAdvances
<1>9. CASE GivesUp(r)
    <2>1. Awaiting(r)'
        BY <1>9 DEF GivesUp, Awaiting
    <2> QED
        BY <1>4, <2>1
<1> QED
    BY <1>3, <1>5, <1>6, <1>7, <1>8, <1>9

LEMMA FabricAwaiting ==
    ASSUME PlacedInv, NEW s \in Ranks, Fabric(s)
    PROVE  \A q \in Ranks : Awaiting(q)'
<1>1. TypeInv /\ \A q \in Ranks : Awaiting(q)
    BY DEF PlacedInv, HeldInv, LinkInv
<1>2. \A q \in Ranks : SamePosition(q)
    BY PositionKept DEF Fabric, program_vars
<1>3. ASSUME NEW q \in Ranks, recv_queue'[q] = recv_queue[q] PROVE Awaiting(q)'
    BY <1>1, <1>2, <1>3, AwaitingStable DEF SamePosition
<1>4. CASE Deliver(s)
    <2> DEFINE d == NextRank(s)
    <2>1. /\ d \in Ranks /\ recv_queue[d] # <<>>
          /\ recv_queue'[d] = Tail(recv_queue[d])
          /\ \A q \in Ranks \ {d} : recv_queue'[q] = recv_queue[q]
        BY <1>1, <1>4, Neighbours DEF Deliver, TypeInv, TypeOK, TypeOKVerbs
    <2>2. Awaiting(d)'
        <3>1. /\ recv_requests[d] \in Seq(PostedRequests(RequestStates))
              /\ recv_queue[d] \in Seq(RecvWrs)
            BY <1>1, <2>1, QueueTypes
        <3>2. ASSUME WaitedFor(recv_requests[d], recv_queue[d])
              PROVE  WaitedFor(recv_requests[d], recv_queue'[d])
            BY <2>1, <3>1, <3>2, WaitedForTaken
        <3>3. /\ RecvBlock(d)' = RecvBlock(d) /\ RecvsPosted(d)' = RecvsPosted(d)
              /\ recv_requests'[d] = recv_requests[d] /\ Unfailed(d)' = Unfailed(d)
            BY <1>2, <2>1 DEF SamePosition, SameStep, RecvBlock
        <3> QED
            BY <1>1, <2>1, <3>2, <3>3 DEF Awaiting
    <2> QED
        BY <1>3, <2>1, <2>2
<1>5. CASE ~Deliver(s)
    <2>1. UNCHANGED recv_queue
        BY <1>5 DEF Fabric, Acknowledge, BreakLink, FlushSend
    <2> QED
        BY <1>3, <2>1
<1> QED
    BY <1>4, <1>5

LEMMA InitPlaced == Init => PlacedInv
<1> SUFFICES ASSUME Init PROVE PlacedInv
    OBVIOUS
<1>1. HeldInv /\ TypeInv
    BY InitHeld DEF HeldInv, LinkInv
<1>2. ASSUME NEW r \in Ranks PROVE Located(r) /\ Placed(r) /\ Awaiting(r)
    <2>1. /\ pc[r] = "idle" /\ phase[r] = ReduceScatter /\ step[r] = 0 /\ batch[r] = 0
          /\ recv_requests[r] = <<>>
          /\ recv_queue[r] = <<>> /\ send_queue[r] = <<>> /\ unacknowledged[r] = <<>>
          /\ control[r] = <<>> /\ send_queue[PrevRank(r)] = <<>>
        BY Neighbours DEF Init, InitVerbs, InitProgram
    <2>2. Located(r)
        BY <2>1 DEF Located
    <2>3. RecvsPosted(r) = 0
        <3>1. BeginPiece(r) = 0 /\ RecvPieces(r) \in Nat
            BY <1>1, <2>1, <2>2, CountFacts, ConfigTypes DEF BeginPiece
        <3> QED
            BY <2>1, <3>1, LeastFacts DEF RecvsPosted
    <2>4. Len(<<>>) = 0 /\ 1..0 = {} /\ 0 + 0 = 0 /\ 0 \in Nat /\ 0 <= 0
        OBVIOUS
    <2>5. Awaiting(r)
        BY <2>1, <2>3, <2>4 DEF Awaiting, ListFrom, WaitedFor
    <2>6. PICK ph \in {ReduceScatter, AllGather}, rb \in Ranks, sb \in Ranks :
             ph = phase[r] /\ rb = RecvBlock(r) /\ sb = SendBlock(r) /\ rb # sb
        <3>1. RecvBlock(r) \in Ranks /\ SendBlock(r) \in Ranks /\ RecvBlock(r) # SendBlock(r)
            BY <1>1, <2>2, CurrentBlocks, StepFacts
        <3>2. phase[r] \in {ReduceScatter, AllGather}
            BY <2>1
        <3> QED
            BY <3>1, <3>2
    <2>7. PlacedAt(r, ph, rb, sb, 0, 0)
        <3>1. /\ DescsFrom(r, ph, rb, <<>>, 0) /\ SendsFrom(r, ph, rb, <<>>, 0)
              /\ SourcesIn(sb, <<>>)
            BY <2>4 DEF DescsFrom, SendsFrom, SourcesIn
        <3>2. 0 <= Pieces(r, rb)
            BY PiecesType
        <3> QED
            BY <2>1, <2>4, <2>6, <3>1, <3>2 DEF PlacedAt
    <2>8. Current(r, ph, rb, sb, 0)
        BY <2>1, <2>3, <2>4, <2>6 DEF Current
    <2> QED
        BY <2>2, <2>4, <2>5, <2>7, <2>8 DEF Placed
<1> QED
    BY <1>1, <1>2 DEF PlacedInv

LEMMA NextPlaced ==
    ASSUME ContinueAfterError = FALSE
    PROVE  PlacedInv /\ [Next]_vars => PlacedInv'
<1> SUFFICES ASSUME PlacedInv, [Next]_vars PROVE PlacedInv'
    OBVIOUS
<1>1. HeldInv' /\ TypeInv'
    BY NextHeld DEF PlacedInv, HeldInv, LinkInv
<1>2. ASSUME NEW r \in Ranks, RunRank(r) \/ Fabric(r)
      PROVE  \A q \in Ranks : Located(q)' /\ Placed(q)' /\ Awaiting(q)'
    BY <1>1, <1>2, RunPlaced, FabricPlaced, RunAwaiting, FabricAwaiting
<1>3. ASSUME UNCHANGED vars
      PROVE  \A q \in Ranks : Located(q)' /\ Placed(q)' /\ Awaiting(q)'
    <2>1. ASSUME NEW q \in Ranks PROVE SamePosition(q) /\ SameQueues(q)
        BY <1>3, PositionKept DEF vars, program_vars, verbs_vars, SameQueues
    <2>2. \A q \in Ranks : Unfailed(q)' = Unfailed(q)
        BY <2>1 DEF SamePosition
    <2>3. \A q \in Ranks : Placed(q)'
        BY <2>1, <2>2, Neighbours, PositionKeeps, PlacedSame DEF PlacedInv
    <2>4. \A q \in Ranks : Awaiting(q)'
        BY <2>1, AwaitingStable DEF PlacedInv, SamePosition, SameQueues
    <2> QED
        BY <2>1, <2>3, <2>4 DEF PlacedInv, SamePosition
<1>4. \A q \in Ranks : Located(q)' /\ Placed(q)' /\ Awaiting(q)'
    <2>1. CASE Next
        BY <1>2, <1>3, <2>1 DEF Next, Finished
    <2> QED
        BY <1>3, <2>1
<1> QED
    BY <1>1, <1>4 DEF PlacedInv

-----------------------------------------------------------------------------
(* No two of the regions in use overlap.                                     *)

LEMMA RegionsApart ==
    ASSUME NEW one, NEW other, one.first \in Int, one.length \in Int,
           other.first \in Int, other.length \in Int,
           \/ one.buffer # other.buffer
           \/ one.first + one.length <= other.first
           \/ other.first + other.length <= one.first
    PROVE  ~Overlap(one, other)
<1> SUFFICES ASSUME NEW cell, cell \in Cells(one), cell \in Cells(other) PROVE FALSE
    BY DEF Overlap
<1>1. PICK e \in one.first..(one.first + one.length - 1) : cell = <<one.buffer, e>>
    BY DEF Cells
<1>2. PICK x \in other.first..(other.first + other.length - 1) : cell = <<other.buffer, x>>
    BY DEF Cells
<1>3. one.buffer = other.buffer /\ e = x
    BY <1>1, <1>2
<1> QED
    BY <1>1, <1>2, <1>3

\* A region that piece j of a block is cut from or lands in.
LEMMA LandingFacts ==
    ASSUME NEW r \in Ranks, NEW ph, NEW block \in Ranks, NEW j \in Nat, j < Pieces(r, block)
    PROVE  /\ Landing(r, ph, block, j).first \in Nat
           /\ Landing(r, ph, block, j).length \in Nat
           /\ ph = ReduceScatter => Landing(r, ph, block, j).buffer = "temporary_buffer"
           /\ ph # ReduceScatter => WithinBlock(Landing(r, ph, block, j), block)
<1>1. PieceStart(r, j) \in Nat /\ CutLength(r, block, j) \in Nat /\ BlockOffset(block) \in Nat
    BY SentPiece, BlockBounds
<1>2. WithinBlock(Region("workbuf", BlockOffset(block) + PieceStart(r, j),
                         CutLength(r, block, j)), block)
    BY SentPiece
<1> QED
    BY <1>1, <1>2 DEF Landing, Region

LEMMA LandingsApart ==
    ASSUME NEW r \in Ranks, NEW ph, NEW block \in Ranks, NEW i \in Nat, NEW j \in Nat,
           i < Pieces(r, block), j < Pieces(r, block), i # j
    PROVE  ~Overlap(Landing(r, ph, block, i), Landing(r, ph, block, j))
<1>1. /\ PieceStart(r, i) \in Nat /\ CutLength(r, block, i) \in Nat
      /\ PieceStart(r, j) \in Nat /\ CutLength(r, block, j) \in Nat
      /\ BlockOffset(block) \in Nat
    BY SentPiece, BlockBounds
<1>2. \/ PieceStart(r, i) + CutLength(r, block, i) <= PieceStart(r, j)
      \/ PieceStart(r, j) + CutLength(r, block, j) <= PieceStart(r, i)
    <2>1. BlockCount(block) \in Nat /\ piece_elements(r) \in Nat \ {0}
        BY BlockBounds, ConfigTypes
    <2>2. i < j \/ j < i
        OBVIOUS
    <2> QED
        BY <2>1, <2>2, PiecesApart DEF PieceStart, CutLength
<1>3. \A o, x, l, y \in Nat : x + l <= y => (o + x) + l <= o + y
    OBVIOUS
<1>4. /\ Landing(r, ph, block, i).first \in Nat /\ Landing(r, ph, block, i).length \in Nat
      /\ Landing(r, ph, block, j).first \in Nat /\ Landing(r, ph, block, j).length \in Nat
    BY LandingFacts
<1>5. \/ Landing(r, ph, block, i).first + Landing(r, ph, block, i).length
           <= Landing(r, ph, block, j).first
      \/ Landing(r, ph, block, j).first + Landing(r, ph, block, j).length
           <= Landing(r, ph, block, i).first
    BY <1>1, <1>2, <1>3 DEF Landing, Region
<1> QED
    BY <1>4, <1>5, RegionsApart

\* Regions inside different blocks.
LEMMA WithinApart ==
    ASSUME NEW b \in Ranks, NEW c \in Ranks, b # c, NEW one, NEW other,
           one.first \in Nat, one.length \in Nat, other.first \in Nat, other.length \in Nat,
           WithinBlock(one, b), WithinBlock(other, c)
    PROVE  ~Overlap(one, other)
<1>1. /\ BlockOffset(b) \in Nat /\ BlockCount(b) \in Nat
      /\ BlockOffset(c) \in Nat /\ BlockCount(c) \in Nat
    BY BlockBounds
<1>2. \/ BlockOffset(b) + BlockCount(b) <= BlockOffset(c)
      \/ BlockOffset(c) + BlockCount(c) <= BlockOffset(b)
    <2>1. Count \in Nat /\ WorldSize \in Nat /\ WorldSize > 0 /\ b \in Nat /\ c \in Nat
        BY CountAssumption, WorldAssumption DEF Ranks
    <2> QED
        BY <2>1, BlocksApart DEF BlockOffset, BlockCount
<1>3. \/ one.first + one.length <= other.first
      \/ other.first + other.length <= one.first
    BY <1>1, <1>2 DEF WithinBlock
<1> QED
    BY <1>3, RegionsApart

\* Where a piece lands and a region of another block.
LEMMA LandingOutside ==
    ASSUME NEW r \in Ranks, NEW ph, NEW rb \in Ranks, NEW sb \in Ranks, rb # sb,
           NEW j \in Nat, j < Pieces(r, rb), NEW region \in Regions, WithinBlock(region, sb)
    PROVE  ~Overlap(Landing(r, ph, rb, j), region)
<1>1. /\ Landing(r, ph, rb, j).first \in Nat /\ Landing(r, ph, rb, j).length \in Nat
      /\ region.first \in Nat /\ region.length \in Nat /\ region.buffer = "workbuf"
    BY LandingFacts DEF Regions, WithinBlock
<1>2. CASE ph = ReduceScatter
    BY <1>1, <1>2, LandingFacts, RegionsApart
<1>3. CASE ph # ReduceScatter
    BY <1>1, <1>3, LandingFacts, WithinApart
<1> QED
    BY <1>2, <1>3

\* The entries of two sequences put together.
LEMMA JoinedEntries ==
    ASSUME NEW S, NEW one \in Seq(S), NEW other \in Seq(S), NEW k \in 1..Len(one \o other)
    PROVE  \/ k \in 1..Len(one) /\ (one \o other)[k] = one[k]
           \/ /\ k > Len(one) /\ k - Len(one) \in 1..Len(other)
              /\ (one \o other)[k] = other[k - Len(one)]
<1>1. Len(one) \in Nat /\ Len(other) \in Nat
    OBVIOUS
<1> DEFINE all == one \o other
<1>2. /\ Len(all) = Len(one) + Len(other)
      /\ \A i \in 1..Len(one) + Len(other) :
            all[i] = IF i <= Len(one) THEN one[i] ELSE other[i - Len(one)]
    BY ConcatProperties, Zenon
<1> HIDE DEF all
<1>3. \/ k \in 1..Len(one) /\ all[k] = one[k]
      \/ /\ k > Len(one) /\ k - Len(one) \in 1..Len(other)
         /\ all[k] = other[k - Len(one)]
    <2>1. k \in 1..Len(one) + Len(other)
        BY <1>2 DEF all
    <2> QED
        BY <1>1, <1>2, <2>1
<1> QED
    BY <1>3 DEF all

\* Which piece each incoming region is for.
Indexed(r, ph, rb, b, index) ==
    \A k \in 1..Len(Incoming(r)) :
        /\ Incoming(r)[k] = Landing(r, ph, rb, index[k])
        /\ b <= index[k] /\ index[k] < Pieces(r, rb)
        /\ \A j \in 1..Len(Incoming(r)) : index[j] = index[k] => j = k

LEMMA IncomingPieces ==
    ASSUME TypeInv, NEW r \in Ranks, NEW ph, NEW rb \in Ranks, NEW sb,
           NEW a \in Nat, NEW b \in Nat, PlacedAt(r, ph, rb, sb, a, b)
    PROVE  \E index \in [1..Len(Incoming(r)) -> Nat] : Indexed(r, ph, rb, b, index)
<1> DEFINE descs == control[r]
           sends == send_queue[PrevRank(r)]
           one == [k \in 1..Len(descs) |-> descs[k].remote_address]
           other == [k \in 1..Len(sends) |-> sends[k].remote_address]
           index == [k \in 1..Len(one \o other) |->
                       IF k <= Len(descs) THEN a + k - 1 ELSE b + (k - Len(descs)) - 1]
<1>1. /\ descs \in Seq(ControlMessages) /\ sends \in Seq(SendWrs)
      /\ Len(descs) \in Nat /\ Len(sends) \in Nat
    BY QueueTypes
<1>2. /\ one \in Seq(Regions) /\ other \in Seq(Regions)
      /\ Len(one) = Len(descs) /\ Len(other) = Len(sends)
    <2>1. /\ \A k \in 1..Len(descs) : descs[k].remote_address \in Regions
          /\ \A k \in 1..Len(sends) : sends[k].remote_address \in Regions
        <3>1. /\ \A k \in 1..Len(descs) : descs[k] \in ControlMessages
              /\ \A k \in 1..Len(sends) : sends[k] \in SendWrs
            BY <1>1, ElementOfSeq
        <3>2. /\ \A m \in ControlMessages : m.remote_address \in Regions
              /\ \A m \in SendWrs : m.remote_address \in Regions
            BY DEF ControlMessages, SendWrs
        <3> QED
            BY <3>1, <3>2
    <2> QED
        BY <1>1, <2>1
<1>3. /\ Pieces(r, rb) \in Nat /\ b + Len(sends) <= a /\ a + Len(descs) <= Pieces(r, rb)
    BY PiecesType DEF PlacedAt
<1>4. /\ \A k \in 1..Len(descs) : one[k] = Landing(r, ph, rb, a + k - 1)
      /\ \A k \in 1..Len(sends) : other[k] = Landing(r, ph, rb, b + k - 1)
    BY DEF PlacedAt, DescsFrom, SendsFrom
<1>5. Incoming(r) = one \o other
    BY DEF Incoming
<1> HIDE DEF one, other, descs, sends
<1>6. ASSUME NEW k \in 1..Len(one \o other)
      PROVE  \/ /\ k \in 1..Len(descs) /\ (one \o other)[k] = Landing(r, ph, rb, a + k - 1)
                /\ index[k] = a + k - 1
             \/ /\ k > Len(descs) /\ k - Len(descs) \in 1..Len(sends)
                /\ (one \o other)[k] = Landing(r, ph, rb, b + (k - Len(descs)) - 1)
                /\ index[k] = b + (k - Len(descs)) - 1
    <2>1. \/ k \in 1..Len(one) /\ (one \o other)[k] = one[k]
          \/ /\ k > Len(one) /\ k - Len(one) \in 1..Len(other)
             /\ (one \o other)[k] = other[k - Len(one)]
        BY <1>2, JoinedEntries
    <2> QED
        BY <1>1, <1>2, <1>4, <2>1
<1> HIDE DEF index
<1>7. ASSUME NEW k \in 1..Len(one \o other)
      PROVE  /\ index[k] \in Nat /\ (one \o other)[k] = Landing(r, ph, rb, index[k])
             /\ b <= index[k] /\ index[k] < Pieces(r, rb)
             /\ k \in 1..Len(descs) => index[k] = a + k - 1 /\ a <= index[k]
             /\ k \notin 1..Len(descs) => index[k] = b + (k - Len(descs)) - 1 /\ index[k] < a
    <2>1. ASSUME NEW m \in Nat, NEW n \in Nat, NEW p \in Nat, b + n <= a, a + m <= p
          PROVE  /\ k \in 1..m => /\ a + k - 1 \in Nat /\ a <= a + k - 1
                                  /\ b <= a + k - 1 /\ a + k - 1 < p
                 /\ k - m \in 1..n => /\ b + (k - m) - 1 \in Nat /\ b <= b + (k - m) - 1
                                      /\ b + (k - m) - 1 < a /\ b + (k - m) - 1 < p
        BY <2>1
    <2>2. /\ k \in 1..Len(descs) => /\ a + k - 1 \in Nat /\ a <= a + k - 1
                                    /\ b <= a + k - 1 /\ a + k - 1 < Pieces(r, rb)
          /\ k - Len(descs) \in 1..Len(sends) =>
               /\ b + (k - Len(descs)) - 1 \in Nat /\ b <= b + (k - Len(descs)) - 1
               /\ b + (k - Len(descs)) - 1 < a /\ b + (k - Len(descs)) - 1 < Pieces(r, rb)
        BY <1>1, <1>3, <2>1, Zenon
    <2>3. CASE k \in 1..Len(descs)
        <3>1. ~(k > Len(descs))
            BY <1>1, <2>3
        <3> QED
            BY <1>6, <2>2, <2>3, <3>1, Zenon
    <2>4. CASE k \notin 1..Len(descs)
        BY <1>6, <2>2, <2>4, Zenon
    <2> QED
        BY <2>3, <2>4
<1>8. ASSUME NEW j \in 1..Len(one \o other), NEW k \in 1..Len(one \o other),
             index[j] = index[k]
      PROVE  j = k
    <2>1. j \in 1..Len(descs) <=> k \in 1..Len(descs)
        <3>1. \A x \in Nat : ~(a <= x /\ x < a)
            OBVIOUS
        <3> QED
            BY <1>7, <1>8, <3>1, Zenon
    <2>2. CASE j \in 1..Len(descs)
        BY <1>1, <1>7, <1>8, <2>1, <2>2
    <2>3. CASE j \notin 1..Len(descs)
        BY <1>1, <1>7, <1>8, <2>1, <2>3
    <2> QED
        BY <2>2, <2>3
<1>9. index \in [1..Len(one \o other) -> Nat]
    BY <1>7 DEF index
<1>10. Indexed(r, ph, rb, b, index)
    BY <1>5, <1>7, <1>8 DEF Indexed
<1> QED
    BY <1>5, <1>9, <1>10

LEMMA OutgoingWithin ==
    ASSUME TypeInv, NEW r \in Ranks, NEW sb, SourcesIn(sb, send_queue[r]),
           SourcesIn(sb, unacknowledged[r]), NEW k \in 1..Len(Outgoing(r))
    PROVE  Outgoing(r)[k] \in Regions /\ WithinBlock(Outgoing(r)[k], sb)
<1> DEFINE one == [i \in 1..Len(send_queue[r]) |-> send_queue[r][i].sge]
           other == [i \in 1..Len(unacknowledged[r]) |-> unacknowledged[r][i].sge]
<1>1. /\ send_queue[r] \in Seq(SendWrs) /\ unacknowledged[r] \in Seq(SendWrs)
      /\ Len(send_queue[r]) \in Nat /\ Len(unacknowledged[r]) \in Nat
    BY QueueTypes, LenProperties
<1>2. /\ one \in Seq(Regions) /\ other \in Seq(Regions)
      /\ Len(one) = Len(send_queue[r]) /\ Len(other) = Len(unacknowledged[r])
    <2>1. /\ \A i \in 1..Len(send_queue[r]) : send_queue[r][i].sge \in Regions
          /\ \A i \in 1..Len(unacknowledged[r]) : unacknowledged[r][i].sge \in Regions
        <3>1. /\ \A i \in 1..Len(send_queue[r]) : send_queue[r][i] \in SendWrs
              /\ \A i \in 1..Len(unacknowledged[r]) : unacknowledged[r][i] \in SendWrs
            BY <1>1, ElementOfSeq
        <3>2. \A m \in SendWrs : m.sge \in Regions
            BY DEF SendWrs
        <3> QED
            BY <3>1, <3>2
    <2> QED
        BY <1>1, <2>1
<1>3. /\ \A i \in 1..Len(one) : one[i] \in Regions /\ WithinBlock(one[i], sb)
      /\ \A i \in 1..Len(other) : other[i] \in Regions /\ WithinBlock(other[i], sb)
    BY <1>2 DEF SourcesIn
<1>4. Outgoing(r) = one \o other
    BY DEF Outgoing
<1> HIDE DEF one, other
<1>5. k \in 1..Len(one \o other)
    BY <1>4
<1>6. \/ k \in 1..Len(one) /\ (one \o other)[k] = one[k]
      \/ k - Len(one) \in 1..Len(other) /\ (one \o other)[k] = other[k - Len(one)]
    BY <1>2, <1>5, JoinedEntries
<1> QED
    BY <1>3, <1>4, <1>6

\* The piece a rank is about to reduce came before those still to arrive.
LEMMA ReducesArrived ==
    ASSUME PlacedInv, NEW r \in Ranks, AboutToReduce(r), NEW a \in Nat, NEW b \in Nat,
           NEW rb \in Ranks, NEW sb, NEW ph, PlacedAt(r, ph, rb, sb, a, b),
           Current(r, ph, rb, sb, a)
    PROVE  /\ Unfailed(r) /\ recv_requests[r] # <<>>
           /\ \E m \in Nat :
                 /\ m < b /\ m < Pieces(r, RecvBlock(r))
                 /\ Head(recv_requests[r]).element_offset = PieceStart(r, m)
                 /\ Head(recv_requests[r]).element_count = CutLength(r, RecvBlock(r), m)
<1> DEFINE list == recv_requests[r]
           j == RecvsPosted(r)
<1>0. TypeInv /\ LinkInv /\ Tracked(r) /\ Awaiting(r) /\ Located(r)
    BY DEF PlacedInv, HeldInv, LinkInv
<1>1. Unfailed(r) /\ pc[r] = "waitRecv"
    BY <1>0 DEF AboutToReduce, LinkInv, FailedStaysOut
<1>2. list # <<>> /\ Head(list).request \in completed[r]
    BY <1>1 DEF AboutToReduce, Awaited
<1>3. /\ Len(list) <= j /\ ListFrom(r, RecvBlock(r), list, j - Len(list))
      /\ WaitedFor(list, recv_queue[r])
    BY <1>0, <1>1 DEF Awaiting
<1>4. /\ list \in Seq(PostedRequests(RequestStates)) /\ recv_queue[r] \in Seq(RecvWrs)
      /\ Len(list) \in Nat /\ Len(recv_queue[r]) \in Nat /\ Len(control[r]) \in Nat
      /\ j \in Nat /\ j <= RecvPieces(r) /\ RecvPieces(r) \in Nat
      /\ RecvPieces(r) = Pieces(r, RecvBlock(r))
    BY <1>0, QueueTypes, CountFacts
<1>5. Head(list).request \notin Named(recv_queue[r], "wr_id")
    BY <1>0, <1>2 DEF Tracked, Receiving
<1>6. Len(recv_queue[r]) < Len(list)
    BY <1>2, <1>3, <1>4, <1>5, WaitedForDone, Zenon
<1>7. /\ a + Len(control[r]) = j
      /\ a + Len(control[r]) <= b + Len(recv_queue[r])
    BY <1>1 DEF Current, PlacedAt
<1> DEFINE m == j - Len(list)
<1>8. m \in Nat /\ m < b /\ m < Pieces(r, RecvBlock(r))
    <2>1. ASSUME NEW p \in Nat, NEW q \in Nat, NEW n \in Nat, NEW l \in Nat,
                 p <= b + q, q < l, l <= p, p <= n
          PROVE  p - l \in Nat /\ p - l < b /\ p - l < n
        BY <2>1
    <2>2. j <= b + Len(recv_queue[r]) /\ j <= Pieces(r, RecvBlock(r))
        BY <1>4, <1>7
    <2> HIDE DEF j
    <2> QED
        BY <1>3, <1>4, <1>6, <2>1, <2>2, Zenon
<1> HIDE DEF j
<1>9. /\ Head(list).element_offset = PieceStart(r, m)
      /\ Head(list).element_count = CutLength(r, RecvBlock(r), m)
    <2>1. Head(list) = list[1] /\ 1 \in 1..Len(list) /\ m + 1 - 1 = m
        BY <1>2, <1>4, <1>8
    <2> HIDE DEF m
    <2>2. ListFrom(r, RecvBlock(r), list, m)
        BY <1>3 DEF m
    <2> QED
        BY <2>1, <2>2 DEF ListFrom
<1> QED
    BY <1>1, <1>2, <1>8, <1>9

LEMMA PlacedApart ==
    ASSUME PlacedInv PROVE BuffersUnshared
<1>1. ASSUME NEW r \in Ranks
      PROVE  /\ \A j, k \in 1..Len(Incoming(r)) :
                   j # k => ~Overlap(Incoming(r)[j], Incoming(r)[k])
             /\ \A j \in 1..Len(Incoming(r)), k \in 1..Len(Outgoing(r)) :
                   ~Overlap(Incoming(r)[j], Outgoing(r)[k])
             /\ AboutToReduce(r) =>
                  LET posted == Head(recv_requests[r]) IN
                  /\ \A k \in 1..Len(Outgoing(r)) :
                        ~Overlap(ReduceTarget(r, posted), Outgoing(r)[k])
                  /\ \A k \in 1..Len(Incoming(r)) :
                        /\ ~Overlap(ReduceTarget(r, posted), Incoming(r)[k])
                        /\ ~Overlap(ReduceSource(posted), Incoming(r)[k])
    <2>1. TypeInv
        BY DEF PlacedInv, HeldInv, LinkInv
    <2>2. PICK ph \in {ReduceScatter, AllGather}, rb \in Ranks, sb \in Ranks,
               a \in Nat, b \in Nat :
             PlacedAt(r, ph, rb, sb, a, b) /\ Current(r, ph, rb, sb, a)
        BY DEF PlacedInv, Placed
    <2>3. PICK index \in [1..Len(Incoming(r)) -> Nat] : Indexed(r, ph, rb, b, index)
        BY <2>1, <2>2, IncomingPieces
    <2>4. /\ rb # sb
          /\ \A k \in 1..Len(Outgoing(r)) :
                Outgoing(r)[k] \in Regions /\ WithinBlock(Outgoing(r)[k], sb)
        BY <2>1, <2>2, OutgoingWithin DEF PlacedAt
    <2>5. \A j, k \in 1..Len(Incoming(r)) :
             j # k => ~Overlap(Incoming(r)[j], Incoming(r)[k])
        <3>1. ASSUME NEW j \in 1..Len(Incoming(r)), NEW k \in 1..Len(Incoming(r)), j # k
              PROVE  ~Overlap(Incoming(r)[j], Incoming(r)[k])
            <4>1. /\ index[j] \in Nat /\ index[k] \in Nat /\ index[j] # index[k]
                  /\ index[j] < Pieces(r, rb) /\ index[k] < Pieces(r, rb)
                BY <2>3, <3>1 DEF Indexed
            <4>2. ~Overlap(Landing(r, ph, rb, index[j]), Landing(r, ph, rb, index[k]))
                BY <4>1, LandingsApart
            <4> QED
                BY <2>3, <4>2 DEF Indexed
        <3> QED
            BY <3>1
    <2>6. ASSUME NEW j \in 1..Len(Incoming(r)), NEW k \in 1..Len(Outgoing(r))
          PROVE  ~Overlap(Incoming(r)[j], Outgoing(r)[k])
        <3>1. index[j] \in Nat /\ index[j] < Pieces(r, rb)
            BY <2>3 DEF Indexed
        <3>2. ~Overlap(Landing(r, ph, rb, index[j]), Outgoing(r)[k])
            BY <2>4, <3>1, LandingOutside
        <3> QED
            BY <2>3, <3>2 DEF Indexed
    <2>7. ASSUME AboutToReduce(r)
          PROVE  LET posted == Head(recv_requests[r]) IN
                 /\ \A k \in 1..Len(Outgoing(r)) :
                       ~Overlap(ReduceTarget(r, posted), Outgoing(r)[k])
                 /\ \A k \in 1..Len(Incoming(r)) :
                       /\ ~Overlap(ReduceTarget(r, posted), Incoming(r)[k])
                       /\ ~Overlap(ReduceSource(posted), Incoming(r)[k])
        <3> DEFINE posted == Head(recv_requests[r])
        <3>1. Unfailed(r)
            BY <2>2, <2>7, ReducesArrived
        <3>2. ph = ReduceScatter /\ rb = RecvBlock(r)
            BY <2>2, <2>7, <3>1 DEF Current, AboutToReduce
        <3>3. PICK m \in Nat : /\ m < b /\ m < Pieces(r, rb)
                               /\ posted.element_offset = PieceStart(r, m)
                               /\ posted.element_count = CutLength(r, rb, m)
            BY <2>2, <2>7, <3>2, ReducesArrived
        <3> HIDE DEF posted
        <3>4. /\ ReduceSource(posted) = Landing(r, ReduceScatter, rb, m)
              /\ ReduceTarget(r, posted) = Landing(r, AllGather, rb, m)
            BY <3>2, <3>3 DEF ReduceSource, ReduceTarget, Landing, ReduceScatter, AllGather
        <3>5. ASSUME NEW k \in 1..Len(Outgoing(r))
              PROVE  ~Overlap(ReduceTarget(r, posted), Outgoing(r)[k])
            BY <2>4, <3>3, <3>4, LandingOutside
        <3>6. ASSUME NEW k \in 1..Len(Incoming(r))
              PROVE  /\ ~Overlap(ReduceTarget(r, posted), Incoming(r)[k])
                     /\ ~Overlap(ReduceSource(posted), Incoming(r)[k])
            <4>1. /\ index[k] \in Nat /\ index[k] < Pieces(r, rb) /\ m # index[k]
                  /\ Incoming(r)[k] = Landing(r, ReduceScatter, rb, index[k])
                BY <2>3, <3>2, <3>3 DEF Indexed
            <4>2. ~Overlap(ReduceSource(posted), Incoming(r)[k])
                BY <3>3, <3>4, <4>1, LandingsApart
            <4>3. ~Overlap(ReduceTarget(r, posted), Incoming(r)[k])
                <5>1. AllGather # ReduceScatter
                    BY DEF AllGather, ReduceScatter
                <5>2. /\ Landing(r, AllGather, rb, m).buffer = "workbuf"
                      /\ Landing(r, AllGather, rb, m).first \in Nat
                      /\ Landing(r, AllGather, rb, m).length \in Nat
                    BY <3>3, <5>1, LandingFacts DEF WithinBlock
                <5>3. /\ Incoming(r)[k].buffer = "temporary_buffer"
                      /\ Incoming(r)[k].first \in Nat /\ Incoming(r)[k].length \in Nat
                    BY <4>1, LandingFacts
                <5>4. ~Overlap(Landing(r, AllGather, rb, m), Incoming(r)[k])
                    <6>1. Landing(r, AllGather, rb, m).buffer # Incoming(r)[k].buffer
                        BY <5>2, <5>3
                    <6>2. \A n \in Nat : n \in Int
                        OBVIOUS
                    <6> QED
                        BY <5>2, <5>3, <6>1, <6>2, RegionsApart, Zenon
                <5> QED
                    BY <3>4, <5>4
            <4> QED
                BY <4>2, <4>3
        <3> QED
            BY <3>5, <3>6 DEF posted
    <2> QED
        BY <2>5, <2>6, <2>7
<1> QED
    BY <1>1 DEF BuffersUnshared

\* Where the application gives up after a failed call, a rank about to copy has
\* waited for everything its earlier calls posted.
LEMMA CopiesApart ==
    ASSUME PlacedInv, ContinueAfterError = FALSE PROVE NoBufferRace
<1>1. ASSUME NEW r \in Ranks, AboutToCopy(r)
      PROVE  Incoming(r) = <<>> /\ Outgoing(r) = <<>>
    <2>1. pc[r] = "idle" /\ Unfailed(r)
        BY <1>1 DEF AboutToCopy, MayCall, Unfailed
    <2>2. HeldInv /\ InBatch(r) /\ RecvsInBlock(r)
        BY DEF PlacedInv, HeldInv, HeldAt, LinkInv, TypeInv
    <2>3. recv_requests[r] = <<>> /\ send_requests[r] = <<>>
        BY <2>1, <2>2 DEF InBatch, RecvsInBlock
    <2>4. /\ send_queue[r] = <<>> /\ unacknowledged[r] = <<>>
          /\ control[r] = <<>> /\ send_queue[PrevRank(r)] = <<>>
        BY <2>1, <2>2, <2>3, NothingHeld
    <2> QED
        BY <2>4 DEF Incoming, Outgoing
<1>2. \A k \in 1..Len(<<>>) : FALSE
    OBVIOUS
<1>3. ASSUME NEW r \in Ranks, AboutToCopy(r)
      PROVE  /\ \A k \in 1..Len(Outgoing(r)) : ~Overlap(Workbuf, Outgoing(r)[k])
             /\ \A k \in 1..Len(Incoming(r)) : ~Overlap(Workbuf, Incoming(r)[k])
    BY <1>1, <1>2, <1>3
<1> QED
    BY <1>3, PlacedApart DEF NoBufferRace, SendBuffersKept

\* No buffer is used by two at once, whatever the number of ranks, the length of
\* the array, the pieces and the links that fail: regions the fabric may write
\* (announced or under way) are disjoint from each other and from those it may
\* read, a piece is reduced only where the fabric does neither, and the copy at
\* the start of a call meets nothing an earlier call posted.  The application
\* gives up after a failed call; a retry breaks SendBuffersKept
\* (ring_reduce_scatter_inplace, ring_all_gather_inplace, ring_all_reduce;
\* pg_transport.h:62-63).
THEOREM BuffersApart ==
    ASSUME ContinueAfterError = FALSE
    PROVE  Spec => []NoBufferRace
BY InitPlaced, NextPlaced, CopiesApart, PTL DEF Spec

-----------------------------------------------------------------------------
(* What keeps two neighbours in step: a rank goes on only when every piece   *)
(* of its step is exchanged.                                                 *)

\* In steps i to j of the link no piece moves: their blocks are empty.
Nothing(s, i, j) == \A g \in i..j : BlockCount(Moved(s, g)) = 0

\* Both ends of the link cut a block alike.
Like(s, block) == LeastOf(piece_elements(s), BlockCount(block))
                    = LeastOf(piece_elements(NextRank(s)), BlockCount(block))

\* Pieces rank r has announced that its neighbour has taken up.
Taken(r) == RecvsPosted(r) - Len(control[r])

\* Sender and receiver of a link are in the same step, as many pieces sent as
\* taken up, or one of them waits for nothing in a step and is ahead.
AlignedAt(s, g, h, p, x) ==
    LET d == NextRank(s) IN
    \/ g = h /\ p = x /\ (p > 0 => Like(s, Moved(s, g)))
    \/ g < h /\ p = Pieces(s, Moved(s, g)) /\ x = 0 /\ Nothing(s, g + 1, h - 1)
    \/ g > h /\ p = 0 /\ x = Pieces(d, Moved(s, h)) /\ Nothing(s, h + 1, g - 1)

Aligned(s) ==
    Unfailed(s) /\ Unfailed(NextRank(s)) =>
        AlignedAt(s, StepsDone(s), StepsDone(NextRank(s)), SendsPosted(s), Taken(NextRank(s)))

AlignedInv == PlacedInv /\ \A s \in Ranks : Aligned(s)

LEMMA LikePieces ==
    ASSUME NEW s \in Ranks, NEW block \in Ranks, Like(s, block)
    PROVE  Pieces(s, block) = Pieces(NextRank(s), block)
<1>1. /\ NextRank(s) \in Ranks /\ BlockCount(block) \in Nat
      /\ piece_elements(s) \in Nat \ {0} /\ piece_elements(NextRank(s)) \in Nat \ {0}
    BY Neighbours, BlockBounds, ConfigTypes
<1> QED
    BY <1>1, CutAlike DEF Like, Pieces

LEMMA FirstCutAlike ==
    ASSUME NEW s \in Ranks, NEW block \in Ranks,
           CutLength(s, block, 0) = CutLength(NextRank(s), block, 0)
    PROVE  Like(s, block)
<1>1. /\ NextRank(s) \in Ranks /\ BlockCount(block) \in Nat
      /\ piece_elements(s) \in Nat \ {0} /\ piece_elements(NextRank(s)) \in Nat \ {0}
    BY Neighbours, BlockBounds, ConfigTypes
<1>2. \A n \in Nat, l \in Nat : n - 0 * l = n
    OBVIOUS
<1> QED
    BY <1>1, <1>2 DEF Like, CutLength, piece_length

\* The sender goes on to its next step.
LEMMA SenderAdvances ==
    ASSUME NEW s \in Ranks, NEW g \in Nat, NEW h \in Nat, NEW p \in Nat, NEW x \in Nat,
           AlignedAt(s, g, h, p, x), p = Pieces(s, Moved(s, g)),
           \A k \in Nat : Moved(s, k) \in Ranks
    PROVE  AlignedAt(s, g + 1, h, 0, x)
<1> DEFINE d == NextRank(s)
<1>0. d \in Ranks /\ \A k \in Nat : BlockCount(Moved(s, k)) \in Nat
    BY Neighbours, BlockBounds
<1>1. \A k \in Nat : Pieces(s, Moved(s, k)) = 0 <=> BlockCount(Moved(s, k)) = 0
    BY PiecesType
<1>2. \A k \in Nat : Pieces(d, Moved(s, k)) = 0 <=> BlockCount(Moved(s, k)) = 0
    BY <1>0, PiecesType
<1>3. CASE g = h /\ p = x /\ (p > 0 => Like(s, Moved(s, g)))
    <2>1. x = Pieces(d, Moved(s, h))
        <3>1. CASE p > 0
            BY <1>3, <3>1, LikePieces
        <3>2. CASE p = 0
            BY <1>1, <1>2, <1>3, <3>2
        <3> QED
            BY <3>1, <3>2
    <2>2. Nothing(s, h + 1, (g + 1) - 1) /\ g + 1 > h
        BY <1>3 DEF Nothing
    <2> QED
        BY <2>1, <2>2 DEF AlignedAt
<1>4. CASE g < h /\ x = 0 /\ Nothing(s, g + 1, h - 1)
    <2>1. CASE g + 1 = h
        BY <1>4, <2>1 DEF AlignedAt
    <2>2. CASE g + 1 < h
        <3>1. g + 1 \in (g + 1)..(h - 1) /\ g + 1 \in Nat
            BY <2>2
        <3>2. Pieces(s, Moved(s, g + 1)) = 0
            BY <1>1, <1>4, <3>1 DEF Nothing
        <3>3. Nothing(s, (g + 1) + 1, h - 1)
            BY <1>4 DEF Nothing
        <3> QED
            BY <1>4, <2>2, <3>2, <3>3 DEF AlignedAt
    <2> QED
        BY <1>4, <2>1, <2>2
<1>5. CASE g > h /\ p = 0 /\ x = Pieces(d, Moved(s, h)) /\ Nothing(s, h + 1, g - 1)
    <2>1. BlockCount(Moved(s, g)) = 0
        BY <1>1, <1>5
    <2>2. Nothing(s, h + 1, (g + 1) - 1)
        <3>1. ASSUME NEW k \in (h + 1)..((g + 1) - 1) PROVE BlockCount(Moved(s, k)) = 0
            <4>1. k = g \/ k \in (h + 1)..(g - 1)
                BY <3>1
            <4> QED
                BY <1>5, <2>1, <4>1 DEF Nothing
        <3> QED
            BY <3>1 DEF Nothing
    <2> QED
        BY <1>5, <2>2 DEF AlignedAt
<1> QED
    BY <1>3, <1>4, <1>5 DEF AlignedAt

\* The receiver goes on to its next step.
LEMMA ReceiverAdvances ==
    ASSUME NEW s \in Ranks, NEW g \in Nat, NEW h \in Nat, NEW p \in Nat, NEW x \in Nat,
           AlignedAt(s, g, h, p, x), x = Pieces(NextRank(s), Moved(s, h)),
           \A k \in Nat : Moved(s, k) \in Ranks
    PROVE  AlignedAt(s, g, h + 1, p, 0)
<1> DEFINE d == NextRank(s)
<1>0. d \in Ranks
    BY Neighbours
<1>1. \A k \in Nat : Pieces(s, Moved(s, k)) = 0 <=> BlockCount(Moved(s, k)) = 0
    BY PiecesType
<1>2. \A k \in Nat : Pieces(d, Moved(s, k)) = 0 <=> BlockCount(Moved(s, k)) = 0
    BY <1>0, PiecesType
<1>3. CASE g = h /\ p = x /\ (p > 0 => Like(s, Moved(s, g)))
    <2>1. p = Pieces(s, Moved(s, g))
        <3>1. CASE p > 0
            BY <1>3, <3>1, LikePieces
        <3>2. CASE p = 0
            BY <1>1, <1>2, <1>3, <3>2
        <3> QED
            BY <3>1, <3>2
    <2>2. Nothing(s, g + 1, (h + 1) - 1) /\ g < h + 1
        BY <1>3 DEF Nothing
    <2> QED
        BY <2>1, <2>2 DEF AlignedAt
<1>4. CASE g > h /\ p = 0 /\ Nothing(s, h + 1, g - 1)
    <2>1. CASE g = h + 1
        BY <1>4, <2>1 DEF AlignedAt
    <2>2. CASE g > h + 1
        <3>1. h + 1 \in (h + 1)..(g - 1) /\ h + 1 \in Nat
            BY <2>2
        <3>2. Pieces(d, Moved(s, h + 1)) = 0
            BY <1>2, <1>4, <3>1 DEF Nothing
        <3>3. Nothing(s, (h + 1) + 1, g - 1)
            BY <1>4 DEF Nothing
        <3> QED
            BY <1>4, <2>2, <3>2, <3>3 DEF AlignedAt
    <2> QED
        BY <1>4, <2>1, <2>2
<1>5. CASE g < h /\ p = Pieces(s, Moved(s, g)) /\ x = 0 /\ Nothing(s, g + 1, h - 1)
    <2>1. BlockCount(Moved(s, h)) = 0
        BY <1>2, <1>5
    <2>2. Nothing(s, g + 1, (h + 1) - 1)
        <3>1. ASSUME NEW k \in (g + 1)..((h + 1) - 1) PROVE BlockCount(Moved(s, k)) = 0
            <4>1. k = h \/ k \in (g + 1)..(h - 1)
                BY <3>1
            <4> QED
                BY <1>5, <2>1, <4>1 DEF Nothing
        <3> QED
            BY <3>1 DEF Nothing
    <2> QED
        BY <1>5, <2>2 DEF AlignedAt
<1> QED
    BY <1>3, <1>4, <1>5 DEF AlignedAt

\* A piece is sent and its descriptor taken up.
LEMMA PieceExchanged ==
    ASSUME NEW s \in Ranks, NEW g \in Nat, NEW h \in Nat, NEW p \in Nat, NEW x \in Nat,
           AlignedAt(s, g, h, p, x), p < Pieces(s, Moved(s, g)),
           x < Pieces(NextRank(s), Moved(s, h)), Moved(s, g) \in Ranks,
           CutLength(s, Moved(s, g), p) = CutLength(NextRank(s), Moved(s, h), x)
    PROVE  g = h /\ p = x /\ AlignedAt(s, g, h, p + 1, x + 1)
<1>1. Pieces(s, Moved(s, g)) \in Nat
    BY PiecesType
<1>2. g = h /\ p = x /\ (p > 0 => Like(s, Moved(s, g)))
    BY <1>1 DEF AlignedAt
<1>3. Like(s, Moved(s, g))
    BY <1>2, FirstCutAlike
<1> QED
    BY <1>2, <1>3 DEF AlignedAt

LEMMA MovedType ==
    ASSUME NEW s \in Ranks, NEW g \in Nat
    PROVE  Moved(s, g) \in Ranks
<1>1. Size \in Nat \ {0} /\ WorldSize - 2 = Size - 1
    BY WorldAssumption DEF Size
<1>2. g % Size \in 0..(Size - 1) /\ g \div Size \in Nat
    BY <1>1, DivMod
<1>3. (g \div Size) % 2 \in {ReduceScatter, AllGather}
    BY <1>2 DEF ReduceScatter, AllGather
<1>4. StepIndex(g) \in 0..(WorldSize - 2) /\ StepPhase(g) \in {ReduceScatter, AllGather}
    BY <1>1, <1>2, <1>3 DEF StepIndex, StepPhase
<1> QED
    BY <1>4, ReceivesSent DEF Moved

\* What the two ends of a link count.
LEMMA LinkCounts ==
    ASSUME PlacedInv, NEW s \in Ranks, Unfailed(NextRank(s))
    PROVE  /\ StepsDone(s) \in Nat /\ StepsDone(NextRank(s)) \in Nat
           /\ SendsPosted(s) \in Nat /\ Taken(NextRank(s)) \in Nat
           /\ SendPieces(s) = Pieces(s, Moved(s, StepsDone(s)))
           /\ RecvPieces(NextRank(s)) = Pieces(NextRank(s), Moved(s, StepsDone(NextRank(s))))
           /\ Taken(NextRank(s)) <= RecvPieces(NextRank(s))
<1> DEFINE d == NextRank(s)
<1>1. d \in Ranks /\ PrevRank(d) = s
    BY Neighbours
<1>2. TypeInv /\ Located(s) /\ Located(d) /\ Placed(d)
    BY <1>1 DEF PlacedInv, HeldInv, LinkInv
<1>3. /\ StepsDone(s) \in Nat /\ StepsDone(d) \in Nat /\ SendsPosted(s) \in Nat
      /\ SendPieces(s) = Pieces(s, Moved(s, StepsDone(s)))
      /\ RecvPieces(d) = Pieces(d, Moved(s, StepsDone(d)))
      /\ RecvsPosted(d) \in Nat /\ RecvPieces(d) \in Nat /\ RecvsPosted(d) <= RecvPieces(d)
    BY <1>1, <1>2, StepFacts, CountFacts
<1>4. PICK a \in Nat : a + Len(control[d]) = RecvsPosted(d)
    BY <1>2 DEF Placed, Current
<1>5. Len(control[d]) \in Nat
    BY <1>1, <1>2, QueueTypes
<1>6. PICK posted \in Nat, unread \in Nat, pieces \in Nat :
        /\ posted = RecvsPosted(d) /\ unread = Len(control[d]) /\ pieces = RecvPieces(d)
        /\ a + unread = posted /\ posted <= pieces
    BY <1>3, <1>4, <1>5
<1>7. posted - unread \in Nat /\ posted - unread <= pieces
    BY <1>6
<1>8. Taken(d) = posted - unread
    BY <1>6 DEF Taken
<1> QED
    BY <1>3, <1>6, <1>7, <1>8

LEMMA AlignedSame ==
    ASSUME NEW s, Aligned(s), Unfailed(s)' => Unfailed(s),
           Unfailed(NextRank(s))' => Unfailed(NextRank(s)),
           StepsDone(s)' = StepsDone(s), StepsDone(NextRank(s))' = StepsDone(NextRank(s)),
           SendsPosted(s)' = SendsPosted(s), Taken(NextRank(s))' = Taken(NextRank(s))
    PROVE  Aligned(s)'
<1>1. ASSUME NEW g, NEW h, NEW p, NEW x
      PROVE  AlignedAt(s, g, h, p, x)' = AlignedAt(s, g, h, p, x)
    BY DEF AlignedAt, Nothing, Like, Moved
<1> QED
    BY <1>1 DEF Aligned

\* A step of the sender.
LEMMA SenderAligned ==
    ASSUME AlignedInv, ContinueAfterError = FALSE, NEW s \in Ranks, RunRank(s)
    PROVE  Aligned(s)'
<1> DEFINE d == NextRank(s)
           g == StepsDone(s)
           h == StepsDone(d)
           p == SendsPosted(s)
           x == Taken(d)
<1>1. PlacedInv /\ HeldInv /\ TypeInv /\ LinkInv
    BY DEF AlignedInv, PlacedInv, HeldInv, LinkInv
<1>2. d \in Ranks /\ d # s /\ PrevRank(d) = s
    BY Neighbours
<1>3. /\ Located(s)' /\ Unfailed(s) /\ Located(s)
      /\ Stays(s) \/ Receives(s) \/ Sends(s) \/ Consumes(s) \/ Advances(s) \/ GivesUp(s)
    BY <1>1, RunEffects, RunnerUnfailed DEF PlacedInv
<1>4. SamePosition(d) /\ recv_queue'[d] = recv_queue[d]
    BY <1>1, <1>2, RunPosition
<1>5. h' = h /\ RecvsPosted(d)' = RecvsPosted(d) /\ Unfailed(d)' = Unfailed(d)
    BY <1>4 DEF SamePosition, SameStep
<1> SUFFICES ASSUME Unfailed(s)', Unfailed(d)'
             PROVE  AlignedAt(s, g, h, p, x)'
    BY DEF Aligned
<1>6. Unfailed(d) /\ AlignedAt(s, g, h, p, x)
    BY <1>3, <1>5 DEF AlignedInv, Aligned
<1>7. /\ g \in Nat /\ h \in Nat /\ p \in Nat /\ x \in Nat
      /\ SendPieces(s) = Pieces(s, Moved(s, g)) /\ RecvPieces(d) = Pieces(d, Moved(s, h))
    BY <1>1, <1>6, LinkCounts
<1>8. \A k \in Nat : Moved(s, k) \in Ranks
    BY MovedType
<1>9. CASE Stays(s) \/ Consumes(s) \/ Receives(s)
    <2>1. control'[d] = control[d]
        BY <1>1, <1>2, <1>9, RunQueues DEF SameQueues
    <2>2. g' = g /\ p' = p /\ x' = x
        BY <1>5, <1>9, <2>1 DEF Stays, Consumes, Receives, SameStep, Taken
    <2>3. Aligned(s)'
        BY <1>3, <1>5, <2>2, AlignedSame DEF AlignedInv
    <2> QED
        BY <2>3 DEF Aligned
<1>10. CASE Sends(s)
    <2>1. g' = g /\ p' = p + 1 /\ p < SendPieces(s)
        BY <1>10 DEF Sends, SameStep
    <2>2. x' = x + 1
        <3>1. control[d] # <<>> /\ control'[d] = Tail(control[d])
            BY <1>1, <1>2, <1>10 DEF Sends, TypeInv, TypeOK, TypeOKVerbs
        <3>2. control[d] \in Seq(ControlMessages)
            BY <1>1, <1>2, QueueTypes
        <3>3. PICK n \in Nat : Len(control[d]) = n + 1 /\ Len(control'[d]) = n
            <4>1. Len(Tail(control[d])) + 1 = Len(control[d]) /\ Len(Tail(control[d])) \in Nat
                BY <3>1, <3>2
            <4> QED
                BY <3>1, <4>1
        <3>4. RecvsPosted(d) \in Nat
            BY <1>1, <1>2, CountFacts DEF PlacedInv
        <3>5. RecvsPosted(d) - n = (RecvsPosted(d) - (n + 1)) + 1
            BY <3>4
        <3> QED
            BY <1>5, <3>3, <3>5 DEF Taken
    <2>3. /\ CutLength(s, Moved(s, g), p) = CutLength(d, Moved(s, h), x)
          /\ x < Pieces(d, Moved(s, h))
        <3>1. PICK ph \in {ReduceScatter, AllGather}, rb \in Ranks, sb \in Ranks,
                   a \in Nat, b \in Nat :
                 PlacedAt(d, ph, rb, sb, a, b) /\ Current(d, ph, rb, sb, a)
            BY <1>1, <1>2 DEF PlacedInv, Placed
        <3>2. rb = RecvBlock(d) /\ a + Len(control[d]) = RecvsPosted(d)
            BY <1>6, <3>1 DEF Current
        <3>3. Len(control[d]) \in Nat
            BY <1>1, <1>2, QueueTypes
        <3>4. a = x
            BY <3>2, <3>3 DEF Taken
        <3>5. /\ a < Pieces(d, rb)
              /\ CutLength(s, SendBlock(s), p) = CutLength(d, rb, a)
            BY <1>1, <1>2, <1>3, <1>10, <3>1, HeadAnnounces
        <3>6. SendBlock(s) = Moved(s, g) /\ RecvBlock(d) = Moved(s, h)
            BY <1>1, <1>2, StepFacts DEF PlacedInv
        <3> QED
            BY <3>2, <3>4, <3>5, <3>6
    <2> HIDE DEF g, h, p, x
    <2>4. AlignedAt(s, g, h, p + 1, x + 1)
        BY <1>6, <1>7, <1>8, <2>1, <2>3, PieceExchanged
    <2> QED
        BY <1>5, <2>1, <2>2, <2>4 DEF AlignedAt, Nothing, Like, Moved
<1>11. CASE Advances(s)
    <2>1. g' = g + 1 /\ p = SendPieces(s) /\ p' = 0
        BY <1>11 DEF Advances
    <2>2. x' = x
        BY <1>5, <1>11 DEF Advances, QueuesKept, Taken
    <2> HIDE DEF g, h, p, x
    <2>3. AlignedAt(s, g + 1, h, 0, x)
        BY <1>6, <1>7, <1>8, <2>1, SenderAdvances
    <2> QED
        BY <1>5, <2>1, <2>2, <2>3 DEF AlignedAt, Nothing, Like, Moved
<1>12. CASE GivesUp(s)
    BY <1>12 DEF GivesUp
<1> QED
    BY <1>3, <1>9, <1>10, <1>11, <1>12

\* A step of the receiver.
LEMMA ReceiverAligned ==
    ASSUME AlignedInv, ContinueAfterError = FALSE, NEW s \in Ranks, RunRank(NextRank(s))
    PROVE  Aligned(s)'
<1> DEFINE d == NextRank(s)
           g == StepsDone(s)
           h == StepsDone(d)
           p == SendsPosted(s)
           x == Taken(d)
<1>1. PlacedInv /\ HeldInv /\ TypeInv /\ LinkInv
    BY DEF AlignedInv, PlacedInv, HeldInv, LinkInv
<1>2. d \in Ranks /\ d # s /\ PrevRank(d) = s /\ NextRank(d) # d
    BY Neighbours
<1>3. /\ Unfailed(d) /\ Located(d)
      /\ Stays(d) \/ Receives(d) \/ Sends(d) \/ Consumes(d) \/ Advances(d) \/ GivesUp(d)
    BY <1>1, <1>2, RunEffects, RunnerUnfailed DEF PlacedInv
<1>4. SamePosition(s)
    BY <1>1, <1>2, RunPosition
<1>5. g' = g /\ p' = p /\ Unfailed(s)' = Unfailed(s)
    BY <1>4 DEF SamePosition, SameStep
<1> SUFFICES ASSUME Unfailed(s)', Unfailed(d)'
             PROVE  AlignedAt(s, g, h, p, x)'
    BY DEF Aligned
<1>6. Unfailed(s) /\ AlignedAt(s, g, h, p, x)
    BY <1>3, <1>5 DEF AlignedInv, Aligned
<1>7. /\ g \in Nat /\ h \in Nat /\ p \in Nat /\ x \in Nat
      /\ RecvPieces(d) = Pieces(d, Moved(s, h))
    BY <1>1, <1>3, LinkCounts
<1>8. \A k \in Nat : Moved(s, k) \in Ranks
    BY MovedType
<1>9. ASSUME h' = h, x' = x PROVE AlignedAt(s, g, h, p, x)'
    <2>1. Aligned(s)'
        BY <1>3, <1>5, <1>9, AlignedSame DEF AlignedInv
    <2> QED
        BY <2>1 DEF Aligned
<1>10. CASE Stays(d) \/ Consumes(d) \/ Sends(d)
    <2>1. control'[d] = control[d]
        BY <1>1, <1>2, <1>10
           DEF Stays, Consumes, Sends, QueuesKept, TypeInv, TypeOK, TypeOKVerbs
    <2> QED
        BY <1>9, <1>10, <2>1 DEF Stays, Consumes, Sends, SameStep, Taken
<1>11. CASE Receives(d)
    <2>1. PICK descriptor \in ControlMessages :
             control' = [control EXCEPT ![d] = Append(@, descriptor)]
        BY <1>11 DEF Receives
    <2>2. control'[d] = Append(control[d], descriptor) /\ control[d] \in Seq(ControlMessages)
        BY <1>1, <1>2, <2>1 DEF TypeInv, TypeOK, TypeOKVerbs
    <2>3. PICK n \in Nat : Len(control[d]) = n /\ Len(control'[d]) = n + 1
        <3>1. Len(Append(control[d], descriptor)) = Len(control[d]) + 1
              /\ Len(control[d]) \in Nat
            BY <2>2
        <3> QED
            BY <2>2, <3>1
    <2>4. RecvsPosted(d) \in Nat /\ RecvsPosted(d)' = RecvsPosted(d) + 1
        BY <1>1, <1>2, <1>3, <1>11, CountFacts DEF Receives
    <2>5. (RecvsPosted(d) + 1) - (n + 1) = RecvsPosted(d) - n
        BY <2>4
    <2> QED
        BY <1>9, <1>11, <2>3, <2>4, <2>5 DEF Receives, SameStep, Taken
<1>12. CASE Advances(d)
    <2>1. h' = h + 1 /\ RecvsPosted(d) = RecvPieces(d) /\ RecvsPosted(d)' = 0
        BY <1>12 DEF Advances
    <2>2. control[d] = <<>> /\ control'[d] = <<>>
        BY <1>1, <1>2, <1>3, <1>12, NothingHeld DEF Advances, QueuesKept
    <2>3. x = RecvPieces(d) /\ x' = 0
        <3>1. RecvPieces(d) \in Nat
            BY <1>1, <1>2, <1>3, CountFacts
        <3>2. Len(control[d]) = 0 /\ Len(control'[d]) = 0
            BY <2>2
        <3>3. x = RecvPieces(d) - 0
            BY <2>1, <3>2 DEF Taken
        <3>4. x' = 0 - 0
            BY <2>1, <3>2 DEF Taken
        <3>5. RecvPieces(d) - 0 = RecvPieces(d) /\ 0 - 0 = 0
            BY <3>1
        <3> QED
            BY <3>3, <3>4, <3>5, Zenon
    <2> HIDE DEF g, h, p, x
    <2>4. AlignedAt(s, g, h + 1, p, 0)
        BY <1>6, <1>7, <1>8, <2>3, ReceiverAdvances
    <2> QED
        BY <1>5, <2>1, <2>3, <2>4 DEF AlignedAt, Nothing, Like, Moved
<1>13. CASE GivesUp(d)
    BY <1>13 DEF GivesUp
<1> QED
    BY <1>3, <1>10, <1>11, <1>12, <1>13

\* A rank's step keeps the two ends of every link together.
LEMMA RunAligned ==
    ASSUME AlignedInv, ContinueAfterError = FALSE, NEW r \in Ranks, RunRank(r),
           NEW s \in Ranks
    PROVE  Aligned(s)'
<1> DEFINE d == NextRank(s)
<1>1. TypeInv /\ HeldInv /\ LinkInv /\ PlacedInv
    BY DEF AlignedInv, PlacedInv, HeldInv, LinkInv
<1>2. d \in Ranks /\ d # s
    BY Neighbours
<1>3. CASE s = r
    BY <1>3, SenderAligned
<1>4. CASE d = r
    BY <1>4, ReceiverAligned
<1>5. CASE s # r /\ d # r
    <2>1. SamePosition(s) /\ SamePosition(d)
        BY <1>1, <1>2, <1>5, RunPosition
    <2>2. /\ Located(r)
          /\ Stays(r) \/ Receives(r) \/ Sends(r) \/ Consumes(r) \/ Advances(r) \/ GivesUp(r)
        BY <1>1, RunEffects DEF PlacedInv
    <2>3. NextRank(r) # d
        BY <1>5, Neighbours
    <2>4. SameQueues(d)
        BY <1>1, <1>2, <1>5, <2>2, <2>3, RunQueues
    <2>5. Taken(d)' = Taken(d)
        BY <2>1, <2>4 DEF Taken, SamePosition, SameQueues
    <2> QED
        BY <2>1, <2>5, AlignedSame DEF AlignedInv, SamePosition, SameStep
<1> QED
    BY <1>3, <1>4, <1>5

LEMMA InitAligned == Init => AlignedInv
<1> SUFFICES ASSUME Init PROVE AlignedInv
    OBVIOUS
<1>1. PlacedInv /\ TypeInv
    BY InitPlaced DEF PlacedInv, HeldInv, LinkInv
<1>2. ASSUME NEW r \in Ranks
      PROVE  StepsDone(r) = 0 /\ SendsPosted(r) = 0 /\ Taken(r) = 0
    <2>1. /\ pc[r] = "idle" /\ calls[r] = 0 /\ control[r] = <<>>
          /\ batch[r] = 0 /\ Located(r)
        BY <1>1 DEF Init, InitVerbs, InitProgram, PlacedInv
    <2>2. StepsDone(r) = 0
        BY <2>1, WorldAssumption, CountAssumption DEF StepsDone
    <2>3. RecvsPosted(r) = 0 /\ SendsPosted(r) = 0
        <3>1. BeginPiece(r) = 0 /\ RecvPieces(r) \in Nat /\ SendPieces(r) \in Nat
            BY <1>1, <2>1, CountFacts, ConfigTypes DEF BeginPiece
        <3> QED
            BY <2>1, <3>1, LeastFacts DEF RecvsPosted, SendsPosted
    <2>4. Len(control[r]) = 0
        BY <2>1
    <2> QED
        BY <2>2, <2>3, <2>4 DEF Taken
<1>3. ASSUME NEW s \in Ranks PROVE Aligned(s)
    <2>1. NextRank(s) \in Ranks
        BY Neighbours
    <2>2. AlignedAt(s, 0, 0, 0, 0)
        BY DEF AlignedAt
    <2> QED
        BY <1>2, <2>1, <2>2 DEF Aligned
<1> QED
    BY <1>1, <1>3 DEF AlignedInv

LEMMA NextAligned ==
    ASSUME ContinueAfterError = FALSE
    PROVE  AlignedInv /\ [Next]_vars => AlignedInv'
<1> SUFFICES ASSUME AlignedInv, [Next]_vars PROVE AlignedInv'
    OBVIOUS
<1>1. PlacedInv'
    BY NextPlaced DEF AlignedInv
<1>2. ASSUME NEW r \in Ranks, RunRank(r) PROVE \A s \in Ranks : Aligned(s)'
    BY <1>2, RunAligned
<1>3. ASSUME UNCHANGED <<program_vars, control>> PROVE \A s \in Ranks : Aligned(s)'
    <2>1. ASSUME NEW q \in Ranks
          PROVE  SamePosition(q) /\ Taken(q)' = Taken(q)
        <3>1. SamePosition(q)
            BY <1>3, PositionKept DEF program_vars
        <3> QED
            BY <1>3, <3>1 DEF SamePosition, Taken
    <2> QED
        BY <2>1, Neighbours, AlignedSame DEF AlignedInv, SamePosition, SameStep
<1>4. ASSUME NEW r \in Ranks, Fabric(r) PROVE UNCHANGED <<program_vars, control>>
    BY <1>4 DEF Fabric, Deliver, Acknowledge, BreakLink, FlushSend
<1>5. UNCHANGED vars => UNCHANGED <<program_vars, control>>
    BY DEF vars, verbs_vars
<1>6. \A s \in Ranks : Aligned(s)'
    <2>1. CASE Next
        BY <1>2, <1>3, <1>4, <1>5, <2>1 DEF Next, Finished
    <2> QED
        BY <1>3, <1>5, <2>1
<1> QED
    BY <1>1, <1>6 DEF AlignedInv

\* A block is empty only where there are fewer elements than ranks.
LEMMA EveryBlockMoves ==
    ASSUME Count >= WorldSize, NEW s \in Ranks, NEW i \in Nat, NEW j \in Int, Nothing(s, i, j)
    PROVE  j < i
<1>1. SUFFICES ASSUME i <= j PROVE FALSE
    OBVIOUS
<1>2. BlockCount(Moved(s, i)) = 0 /\ Moved(s, i) \in Ranks
    BY <1>1, MovedType DEF Nothing
<1>3. BlockCount(Moved(s, i)) >= Count \div WorldSize
    BY <1>2, WorldAssumption, CountAssumption DEF BlockCount, layout_count, Ranks
<1>4. Count \div WorldSize >= 1
    BY WorldAssumption, CountAssumption
<1> QED
    BY <1>2, <1>3, <1>4, WorldAssumption, CountAssumption

\* While no call fails, neighbouring ranks are never more than one ring step
\* apart (the loops of ring_collectives.cpp:183-285 and 341-425): what a step
\* waits for is its neighbour's send of the same step, whatever the fabric delays.
THEOREM NeighboursKeepStep ==
    ASSUME ContinueAfterError = FALSE
    PROVE  Spec => [](NeverFails => NeighboursInStep)
<1>1. ASSUME AlignedInv PROVE NeverFails => NeighboursInStep
    <2> SUFFICES ASSUME NeverFails, Count >= WorldSize, NEW s \in Ranks
                 PROVE  /\ StepsDone(s) <= StepsDone(NextRank(s)) + 1
                        /\ StepsDone(NextRank(s)) <= StepsDone(s) + 1
        BY DEF NeighboursInStep
    <2> DEFINE g == StepsDone(s)
               h == StepsDone(NextRank(s))
    <2>1. NextRank(s) \in Ranks /\ Unfailed(s) /\ Unfailed(NextRank(s))
        BY Neighbours DEF NeverFails
    <2>2. AlignedAt(s, g, h, SendsPosted(s), Taken(NextRank(s)))
        BY <1>1, <2>1 DEF AlignedInv, Aligned
    <2>3. g \in Nat /\ h \in Nat
        BY <1>1, <2>1, LinkCounts DEF AlignedInv
    <2>4. CASE g = h
        BY <2>3, <2>4
    <2>5. CASE g < h /\ Nothing(s, g + 1, h - 1)
        BY <2>3, <2>5, EveryBlockMoves
    <2>6. CASE g > h /\ Nothing(s, h + 1, g - 1)
        BY <2>3, <2>6, EveryBlockMoves
    <2> QED
        BY <2>2, <2>4, <2>5, <2>6 DEF AlignedAt
<1> QED
    BY <1>1, InitAligned, NextAligned, PTL DEF Spec

=============================================================================
