-------------------------- MODULE VerbsRingQueues ---------------------------
(* Type correctness of VerbsRing, for every number of ranks, array length,   *)
(* configuration and fault set.  As the type of a work request holds only    *)
(* regions inside their buffer, it is a proof of memory safety as well.      *)
(* After it, the link between two neighbours: messages and receive WRs meet  *)
(* in order.  Then the requests of a rank: each is in one place on its way   *)
(* from its post to its completion, and a call that succeeds leaves none     *)
(* behind.                                                                   *)
EXTENDS VerbsRing, RingScheduleProofs, SequenceTheorems, FiniteSetTheorems

LEMMA RankFacts ==
    /\ WorldSize \in Nat /\ WorldSize >= 2
    /\ \A r \in Ranks : NextRank(r) \in Ranks /\ PrevRank(r) \in Ranks
<1>1. \A r \in Ranks : NextRank(r) \in Ranks
    BY WorldAssumption, DivMod DEF Ranks, NextRank
<1>2. \A r \in Ranks : PrevRank(r) \in Ranks
    BY WorldAssumption, DivMod DEF Ranks, PrevRank
<1> QED
    BY <1>1, <1>2, WorldAssumption

-----------------------------------------------------------------------------
(* The transport's half.                                                     *)

LEMMA NewRequestType ==
    ASSUME TypeOKVerbs, NEW r \in Ranks, NEW kind \in {"send", "recv"}, NEW tag \in Nat,
           NEW bytes \in Nat, NEW mode
    PROVE  NewRequest(r, kind, tag, bytes, mode) \in RequestStates
BY DEF TypeOKVerbs, NewRequest, RequestState, RequestStates, choose_mode,
       EAGER, RENDEZVOUS, AUTO

LEMMA EmptyRegion ==
    ASSUME NEW region \in Regions
    PROVE  Region(region.buffer, 0, 0) \in Regions
<1>1. /\ region.buffer \in DOMAIN BufferLength /\ region.first \in Nat /\ region.length \in Nat
      /\ region.first + region.length <= BufferLength[region.buffer]
    BY DEF Regions
<1>2. TemporaryLength \in Nat
    BY DivMod, WorldAssumption, CountAssumption DEF TemporaryLength
<1>3. BufferLength[region.buffer] \in Nat
    BY <1>1, <1>2, CountAssumption DEF BufferLength
<1> QED
    BY <1>1, <1>3 DEF Region, Regions

LEMMA PostReceiveTypes ==
    ASSUME TypeOKVerbs, NEW r \in Ranks, NEW region \in Regions, NEW bytes \in Nat,
           NEW tag \in Nat, NEW mode,
           post_receive_previous(r, region, bytes, tag, mode)
    PROVE  TypeOKVerbs'
<1> DEFINE state == NewRequest(r, "recv", tag, bytes, mode)
<1>1. state \in RequestStates
    BY NewRequestType DEF post_receive_previous
<1>2. RecvWr(state, bytes, region) \in RecvWrs
    BY <1>1, EmptyRegion DEF RecvWr, RecvWrs
<1>3. ControlMessage(tag, bytes, state.mode, region) \in ControlMessages
    BY <1>1 DEF ControlMessage, ControlMessages, RequestStates
<1> HIDE DEF state
<1>4. /\ next_request_id' = [next_request_id EXCEPT ![r] = @ + 1]
      /\ pending_requests' = [pending_requests EXCEPT ![r] = @ \cup {state}]
      /\ recv_queue' = [recv_queue EXCEPT ![r] = Append(@, RecvWr(state, bytes, region))]
      /\ control' = [control EXCEPT ![r] =
                        Append(@, ControlMessage(tag, bytes, state.mode, region))]
      /\ UNCHANGED <<completed, errored, send_queue, unacknowledged, cq, qp_error>>
    BY DEF post_receive_previous, TakeId, state
<1> QED
    BY <1>1, <1>2, <1>3, <1>4 DEF TypeOKVerbs

LEMMA PostReceiveThrowsTypes ==
    ASSUME TypeOKVerbs, NEW r \in Ranks, post_receive_throws(r)
    PROVE  TypeOKVerbs'
<1>1. UNCHANGED next_request_id \/ TakeId(r)
    BY DEF post_receive_throws
<1>2. next_request_id' \in [Ranks -> Nat]
    BY <1>1 DEF TypeOKVerbs, TakeId
<1>3. UNCHANGED <<pending_requests, completed, errored, recv_queue, send_queue,
                  unacknowledged, cq, control, qp_error>>
    BY DEF post_receive_throws
<1> QED
    BY <1>2, <1>3 DEF TypeOKVerbs

LEMMA PostSendTypes ==
    ASSUME TypeOKVerbs, NEW r \in Ranks, NEW region \in Regions, NEW bytes \in Nat,
           NEW tag \in Nat, NEW mode,
           post_send_next(r, region, bytes, tag, mode)
    PROVE  TypeOKVerbs'
<1> DEFINE state == NewRequest(r, "send", tag, bytes, mode)
           next  == NextRank(r)
           descriptor == Head(control[next])
<1>1. state \in RequestStates
    BY NewRequestType DEF post_send_next
<1>2. next \in Ranks /\ control[next] \in Seq(ControlMessages) /\ control[next] # <<>>
    BY RankFacts DEF TypeOKVerbs, post_send_next
<1>3. descriptor \in ControlMessages /\ Tail(control[next]) \in Seq(ControlMessages)
    BY <1>2
<1>4. SendWr(state, bytes, region, descriptor.remote_address) \in SendWrs
    BY <1>1, <1>3 DEF SendWr, SendWrs, ControlMessages, RequestStates
<1>5. /\ next_request_id' = [next_request_id EXCEPT ![r] = @ + 1]
      /\ pending_requests' = [pending_requests EXCEPT ![r] = @ \cup {state}]
      /\ send_queue' = [send_queue EXCEPT ![r] =
                Append(@, SendWr(state, bytes, region, descriptor.remote_address))]
      /\ control' = [control EXCEPT ![next] = Tail(@)]
      /\ UNCHANGED <<completed, errored, recv_queue, unacknowledged, cq, qp_error>>
    BY DEF post_send_next, TakeId
<1> HIDE DEF state, next, descriptor
<1> QED
    BY <1>1, <1>2, <1>3, <1>4, <1>5 DEF TypeOKVerbs

LEMMA PostSendThrowsTypes ==
    ASSUME TypeOKVerbs, NEW r \in Ranks, NEW bytes, NEW tag, NEW mode,
           post_send_throws(r, bytes, tag, mode)
    PROVE  TypeOKVerbs'
<1> DEFINE next == NextRank(r)
<1>1. next \in Ranks
    BY RankFacts
<1>2. control[next] # <<>> /\ control' = [control EXCEPT ![next] = Tail(@)]
    BY DEF post_send_throws
<1>3. UNCHANGED next_request_id \/ TakeId(r)
    BY DEF post_send_throws
<1>4. UNCHANGED <<pending_requests, completed, errored, recv_queue, send_queue,
                  unacknowledged, cq, qp_error>>
    BY DEF post_send_throws
<1> HIDE DEF next
<1>5. control' \in [Ranks -> Seq(ControlMessages)]
    <2>1. Tail(control[next]) \in Seq(ControlMessages)
        BY <1>1, <1>2 DEF TypeOKVerbs
    <2> QED
        BY <1>2, <2>1 DEF TypeOKVerbs
<1>6. next_request_id' \in [Ranks -> Nat]
    BY <1>3 DEF TypeOKVerbs, TakeId
<1> QED
    BY <1>4, <1>5, <1>6 DEF TypeOKVerbs

LEMMA HandleCompletionTypes ==
    ASSUME TypeOKVerbs, NEW r \in Ranks, handle_completion(r)
    PROVE  TypeOKVerbs'
<1>1. /\ cq[r] \in Seq(Completions) /\ cq[r] # <<>>
      /\ Head(cq[r]).wr_id \in RequestStates
    BY DEF TypeOKVerbs, handle_completion, Completions
<1>2. completed' \in [Ranks -> SUBSET RequestStates]
    BY <1>1 DEF TypeOKVerbs, handle_completion
<1>3. errored' \in [Ranks -> SUBSET RequestStates]
    BY <1>1 DEF TypeOKVerbs, handle_completion
<1>4. cq' \in [Ranks -> Seq(Completions)]
    BY <1>1 DEF TypeOKVerbs, handle_completion
<1> QED
    BY <1>2, <1>3, <1>4 DEF TypeOKVerbs, handle_completion

LEMMA ConsumeRequestTypes ==
    ASSUME TypeOKVerbs, NEW r \in Ranks, NEW state, consume_request(r, state)
    PROVE  TypeOKVerbs'
BY DEF TypeOKVerbs, consume_request

LEMMA CompletionTypes ==
    ASSUME NEW recv \in RecvWrs, NEW send \in SendWrs, NEW ok \in BOOLEAN
    PROVE  /\ RecvCompletion(recv, send) \in Completions
           /\ SendCompletion(send, ok) \in Completions
BY DEF RecvCompletion, SendCompletion, Completion, Completions, RecvWrs, SendWrs, NoImmediate

-----------------------------------------------------------------------------
(* The fabric.                                                               *)

\* Contents of a region are sequences of contributions, index by index.
LEMMA ContentsType ==
    ASSUME TypeOKMemory, NEW r \in Ranks, NEW region \in Regions
    PROVE  /\ DOMAIN Contents(r, region) = 0..(region.length - 1)
           /\ \A i \in 0..(region.length - 1) :
                 Contents(r, region)[i] \in Seq(Contributions)
<1>1. /\ region.buffer \in {"workbuf", "temporary_buffer"}
      /\ region.first \in Nat /\ region.length \in Nat
      /\ region.first + region.length <= BufferLength[region.buffer]
    BY DEF Regions, BufferLength
<1>2. TemporaryLength \in Nat
    BY DivMod, WorldAssumption, CountAssumption DEF TemporaryLength
<1>3. ASSUME NEW i \in 0..(region.length - 1)
      PROVE  memory[r][region.buffer][region.first + i] \in Seq(Contributions)
    <2>1. CASE region.buffer = "workbuf"
        <3>1. region.first + i \in Elements("workbuf")
            BY <1>1, <1>3, <2>1, CountAssumption DEF Elements, BufferLength
        <3> QED
            BY <2>1, <3>1 DEF TypeOKMemory
    <2>2. CASE region.buffer = "temporary_buffer"
        <3>1. region.first + i \in Elements("temporary_buffer")
            BY <1>1, <1>2, <1>3, <2>2 DEF Elements, BufferLength
        <3> QED
            BY <2>2, <3>1 DEF TypeOKMemory
    <2> QED
        BY <1>1, <2>1, <2>2
<1> QED
    BY <1>3 DEF Contents

LEMMA StoredType ==
    ASSUME TypeOKMemory, NEW r \in Ranks, NEW region \in Regions, NEW data,
           \A i \in DOMAIN data : data[i] \in Seq(Contributions),
           memory' = Stored(r, region, data)
    PROVE  TypeOKMemory'
<1>1. region.buffer \in {"workbuf", "temporary_buffer"}
    BY DEF Regions, BufferLength
<1> DEFINE cells ==
        [e \in Elements(region.buffer) |->
            IF e - region.first \in DOMAIN data THEN data[e - region.first]
                                               ELSE memory[r][region.buffer][e]]
<1>2. cells \in [Elements(region.buffer) -> Seq(Contributions)]
    BY <1>1 DEF TypeOKMemory
<1>3. memory' = [memory EXCEPT ![r][region.buffer] = cells]
    BY DEF Stored
<1> HIDE DEF cells
<1>4. CASE region.buffer = "workbuf"
    BY <1>2, <1>3, <1>4 DEF TypeOKMemory
<1>5. CASE region.buffer = "temporary_buffer"
    BY <1>2, <1>3, <1>5 DEF TypeOKMemory
<1> QED
    BY <1>1, <1>4, <1>5

LEMMA DeliverTypes ==
    ASSUME TypeOKMemory, TypeOKVerbs, NEW s \in Ranks, Deliver(s)
    PROVE  TypeOKMemory' /\ TypeOKVerbs'
<1> DEFINE d == NextRank(s)
           send == Head(send_queue[s])
           recv == Head(recv_queue[d])
           target == IF send.opcode = "SEND_WITH_IMM" THEN recv.sge ELSE send.remote_address
<1>1. /\ d \in Ranks
      /\ send_queue[s] \in Seq(SendWrs) /\ send_queue[s] # <<>>
      /\ recv_queue[d] \in Seq(RecvWrs) /\ recv_queue[d] # <<>>
    BY RankFacts DEF TypeOKVerbs, Deliver
<1>2. /\ send \in SendWrs /\ Tail(send_queue[s]) \in Seq(SendWrs)
      /\ recv \in RecvWrs /\ Tail(recv_queue[d]) \in Seq(RecvWrs)
    BY <1>1
<1>3. target \in Regions /\ send.sge \in Regions
    BY <1>2 DEF SendWrs, RecvWrs
<1>4. RecvCompletion(recv, send) \in Completions
    BY <1>2, CompletionTypes
<1>5. memory' = Stored(d, target, Contents(s, send.sge))
    BY DEF Deliver
<1>6. /\ send_queue'     = [send_queue EXCEPT ![s] = Tail(@)]
      /\ recv_queue'     = [recv_queue EXCEPT ![d] = Tail(@)]
      /\ unacknowledged' = [unacknowledged EXCEPT ![s] = Append(@, send)]
      /\ cq' = [cq EXCEPT ![d] = Append(@, RecvCompletion(recv, send))]
      /\ UNCHANGED <<next_request_id, pending_requests, completed, errored,
                     control, qp_error>>
    BY DEF Deliver
<1> HIDE DEF d, send, recv, target
<1>7. TypeOKMemory'
    BY <1>1, <1>3, <1>5, ContentsType, StoredType
<1>8. TypeOKVerbs'
    BY <1>1, <1>2, <1>4, <1>6, SMTT(30) DEF TypeOKVerbs
<1> QED
    BY <1>7, <1>8

LEMMA AcknowledgeTypes ==
    ASSUME TypeOKVerbs, NEW s \in Ranks, Acknowledge(s)
    PROVE  TypeOKVerbs'
<1> DEFINE send == Head(unacknowledged[s])
           completion == SendCompletion(send, TRUE)
<1>1. unacknowledged[s] \in Seq(SendWrs) /\ unacknowledged[s] # <<>>
    BY DEF TypeOKVerbs, Acknowledge
<1>2. send \in SendWrs /\ Tail(unacknowledged[s]) \in Seq(SendWrs)
    BY <1>1
<1>3. completion \in Completions
    BY <1>2 DEF SendCompletion, Completion, Completions, SendWrs, NoImmediate
<1>4. /\ unacknowledged' = [unacknowledged EXCEPT ![s] = Tail(@)]
      /\ cq' = [cq EXCEPT ![s] = Append(@, completion)]
      /\ UNCHANGED <<next_request_id, pending_requests, completed, errored,
                     recv_queue, send_queue, control, qp_error>>
    BY DEF Acknowledge
<1> HIDE DEF send, completion
<1> QED
    BY <1>2, <1>3, <1>4 DEF TypeOKVerbs

LEMMA BreakLinkTypes ==
    ASSUME TypeOKVerbs, NEW s \in Ranks, BreakLink(s)
    PROVE  TypeOKVerbs'
BY DEF TypeOKVerbs, BreakLink

LEMMA FlushSendTypes ==
    ASSUME TypeOKVerbs, NEW s \in Ranks, FlushSend(s)
    PROVE  TypeOKVerbs'
<1> DEFINE all == unacknowledged[s] \o send_queue[s]
           flushed == Head(all)
           completion == SendCompletion(flushed, FALSE)
<1>1. unacknowledged[s] \in Seq(SendWrs) /\ send_queue[s] \in Seq(SendWrs)
    BY DEF TypeOKVerbs
<1>2. all \in Seq(SendWrs) /\ all # <<>>
    <2>1. all \in Seq(SendWrs)
        BY <1>1, ConcatProperties
    <2>2. all # <<>>
        BY DEF FlushSend
    <2> QED
        BY <2>1, <2>2
<1> HIDE DEF all
<1>3. flushed \in SendWrs
    BY <1>2
<1>4. completion \in Completions
    BY <1>3 DEF SendCompletion, Completion, Completions, SendWrs, NoImmediate
<1>5. /\ cq' = [cq EXCEPT ![s] = Append(@, completion)]
      /\ UNCHANGED <<next_request_id, pending_requests, completed, errored,
                     recv_queue, control, qp_error>>
    BY DEF FlushSend, all
<1> HIDE DEF flushed, completion
<1>6. cq' \in [Ranks -> Seq(Completions)]
    BY <1>4, <1>5 DEF TypeOKVerbs
<1>7. \/ /\ unacknowledged[s] # <<>>
         /\ unacknowledged' = [unacknowledged EXCEPT ![s] = Tail(@)]
         /\ UNCHANGED send_queue
      \/ /\ unacknowledged[s] = <<>>
         /\ send_queue' = [send_queue EXCEPT ![s] = Tail(@)]
         /\ UNCHANGED unacknowledged
    BY DEF FlushSend
<1>8. /\ unacknowledged' \in [Ranks -> Seq(SendWrs)]
      /\ send_queue' \in [Ranks -> Seq(SendWrs)]
    <2>1. CASE unacknowledged[s] # <<>>
        <3>1. Tail(unacknowledged[s]) \in Seq(SendWrs)
            BY <1>1, <2>1
        <3> QED
            BY <1>7, <2>1, <3>1 DEF TypeOKVerbs
    <2>2. CASE unacknowledged[s] = <<>>
        <3>1. send_queue[s] # <<>>
            BY <1>1, <1>2, <2>2 DEF all
        <3>2. Tail(send_queue[s]) \in Seq(SendWrs)
            BY <1>1, <3>1
        <3> QED
            BY <1>7, <2>2, <3>2 DEF TypeOKVerbs
    <2> QED
        BY <2>1, <2>2
<1> QED
    BY <1>5, <1>6, <1>8 DEF TypeOKVerbs

-----------------------------------------------------------------------------
(* The program's half.                                                       *)

\* The receives a rank waits for lie inside the block of its current step, and
\* none are left outside a batch; reducing them stays inside that block.
RecvsInBlock(r) ==
    /\ pc[r] \in {"idle", "batch", "waitSend"} => recv_requests[r] = <<>>
    /\ \A k \in 1..Len(recv_requests[r]) :
          recv_requests[r][k].element_offset + recv_requests[r][k].element_count
            <= BlockCount(RecvBlock(r))

TypeInv ==
    /\ TypeOK
    /\ \A r \in Ranks : RecvsInBlock(r)

ProgramOK == TypeOKProgram(RequestStates)

LEMMA ConfigTypes ==
    ASSUME NEW r \in Ranks
    PROVE  piece_elements(r) \in Nat \ {0} /\ batch_capacity(r) \in Nat \ {0}
<1>1. /\ ContextConfig(Config[r]).pipeline_piece_bytes \in Nat
      /\ ContextConfig(Config[r]).max_inflight \in Nat \ {0}
    BY CollectiveAssumption DEF ContextConfig, LeastOf
<1> QED
    BY <1>1, PieceTypes, CollectiveAssumption DEF piece_elements, batch_capacity

LEMMA BlockTypes ==
    ASSUME ProgramOK, NEW r \in Ranks
    PROVE  SendBlock(r) \in Ranks /\ RecvBlock(r) \in Ranks
<1>1. step[r] \in 0..(WorldSize - 2) /\ phase[r] \in {ReduceScatter, AllGather}
    BY DEF ProgramOK, TypeOKProgram
<1>2. r \in Int /\ step[r] \in Int /\ WorldSize \in Nat /\ WorldSize > 0
    BY <1>1, WorldAssumption DEF Ranks
<1>3. /\ send_block(r, WorldSize, phase[r], step[r]) \in 0..(WorldSize - 1)
      /\ recv_block(r, WorldSize, phase[r], step[r]) \in 0..(WorldSize - 1)
    BY <1>1, <1>2, BlockRange
<1> QED
    BY <1>3 DEF SendBlock, RecvBlock, Ranks

LEMMA BlockBounds ==
    ASSUME NEW block \in Ranks
    PROVE  /\ BlockCount(block) \in Nat /\ BlockOffset(block) \in Nat
           /\ BlockOffset(block) + BlockCount(block) <= Count
           /\ BlockCount(block) <= TemporaryLength
           /\ TemporaryLength \in Nat
<1>1. block \in Nat /\ block \in 0..(WorldSize - 1) /\ WorldSize > 0 /\ Count \in Nat
    BY RankFacts, CountAssumption DEF Ranks
<1>2. Count + WorldSize - 1 \in Nat
    BY <1>1, RankFacts
<1>3. TemporaryLength \in Nat
    BY <1>1, <1>2, RankFacts, DivMod DEF TemporaryLength
<1>4. /\ BlockCount(block) \in Nat /\ BlockOffset(block) \in Nat
      /\ BlockCount(block) <= TemporaryLength
    BY <1>1, RankFacts, LayoutTypes, BlockInTemporary
       DEF BlockCount, BlockOffset, TemporaryLength
<1>5. BlockOffset(block) + BlockCount(block) <= Count
    BY <1>1, RankFacts, BlockInArray DEF BlockCount, BlockOffset
<1> QED
    BY <1>3, <1>4, <1>5

LEMMA BlockPieces ==
    ASSUME ProgramOK, NEW r \in Ranks
    PROVE  SendPieces(r) \in Nat /\ RecvPieces(r) \in Nat
<1>1. ASSUME NEW block \in Ranks
      PROVE  piece_count_for(BlockCount(block), piece_elements(r)) \in Nat
    <2>1. BlockCount(block) \in Nat /\ piece_elements(r) \in Nat \ {0}
        BY BlockBounds, ConfigTypes
    <2> QED
        BY <2>1, DivMod DEF piece_count_for
<1> QED
    BY <1>1, BlockTypes DEF SendPieces, RecvPieces

\* What is posted lies inside its buffer, and inside its block.
LEMMA PostedRegions ==
    ASSUME ProgramOK, NEW r \in Ranks
    PROVE  /\ RecvToPost(r) =>
                /\ RecvRegion(r) \in Regions /\ RecvBytes(r) \in Nat
                /\ PieceOffset(r) \in Nat /\ PieceLength(r, RecvBlock(r)) \in Nat
                /\ PieceOffset(r) + PieceLength(r, RecvBlock(r)) <= BlockCount(RecvBlock(r))
           /\ SendToPost(r) =>
                /\ SendRegion(r) \in Regions /\ SendBytes(r) \in Nat
                /\ PieceOffset(r) \in Nat /\ PieceLength(r, SendBlock(r)) \in Nat
<1>1. /\ piece[r] \in Nat /\ piece_elements(r) \in Nat \ {0} /\ ElementSize \in Nat
      /\ EndPiece(r) \in Nat
    <2>1. batch[r] \in Nat /\ piece[r] \in Nat
        BY DEF ProgramOK, TypeOKProgram
    <2> QED
        BY <2>1, ConfigTypes, CollectiveAssumption, ProductInNat DEF EndPiece, BeginPiece
<1>2. ASSUME NEW block \in Ranks,
             piece[r] < piece_count_for(BlockCount(block), piece_elements(r))
      PROVE  /\ PieceOffset(r) \in Nat /\ PieceLength(r, block) \in Nat
             /\ PieceLength(r, block) * ElementSize \in Nat
             /\ PieceOffset(r) + PieceLength(r, block) <= BlockCount(block)
             /\ Region("temporary_buffer", PieceOffset(r), PieceLength(r, block)) \in Regions
             /\ Region("workbuf", BlockOffset(block) + PieceOffset(r),
                       PieceLength(r, block)) \in Regions
    <2>1. /\ PieceOffset(r) \in Nat /\ PieceLength(r, block) \in Nat
          /\ PieceOffset(r) + PieceLength(r, block) <= BlockCount(block)
        BY <1>1, <1>2, BlockBounds, PieceInBlock DEF PieceOffset, PieceLength
    <2>2. PieceLength(r, block) * ElementSize \in Nat
        BY <1>1, <2>1, ProductInNat
    <2>3. /\ PieceOffset(r) + PieceLength(r, block) <= TemporaryLength
          /\ (BlockOffset(block) + PieceOffset(r)) + PieceLength(r, block) <= Count
          /\ BlockOffset(block) + PieceOffset(r) \in Nat
        BY <2>1, BlockBounds, CountAssumption
    <2> QED
        BY <2>1, <2>2, <2>3 DEF Region, Regions, BufferLength
<1>3. ASSUME NEW pieces \in Nat, piece[r] < LeastOf(EndPiece(r), pieces)
      PROVE  piece[r] < pieces
    BY <1>1, <1>3 DEF LeastOf
<1>4. SendPieces(r) \in Nat /\ RecvPieces(r) \in Nat
    BY BlockPieces
<1>5. ASSUME RecvToPost(r)
      PROVE  /\ RecvRegion(r) \in Regions /\ RecvBytes(r) \in Nat
             /\ PieceOffset(r) \in Nat /\ PieceLength(r, RecvBlock(r)) \in Nat
             /\ PieceOffset(r) + PieceLength(r, RecvBlock(r)) <= BlockCount(RecvBlock(r))
    <2>1. piece[r] < piece_count_for(BlockCount(RecvBlock(r)), piece_elements(r))
        BY <1>3, <1>4, <1>5 DEF RecvToPost, RecvPieces
    <2> QED
        BY <1>2, <2>1, BlockTypes DEF RecvRegion, RecvBytes
<1>6. ASSUME SendToPost(r)
      PROVE  /\ SendRegion(r) \in Regions /\ SendBytes(r) \in Nat
             /\ PieceOffset(r) \in Nat /\ PieceLength(r, SendBlock(r)) \in Nat
    <2>1. piece[r] < piece_count_for(BlockCount(SendBlock(r)), piece_elements(r))
        BY <1>3, <1>4, <1>6 DEF SendToPost, SendPieces
    <2> QED
        BY <1>2, <2>1, BlockTypes DEF SendRegion, SendBytes
<1> QED
    BY <1>5, <1>6

LEMMA TagTypes ==
    ASSUME ProgramOK, NEW r \in Ranks
    PROVE  Tag(r) \in Nat
<1>1. /\ sequence[r] \in Nat /\ phase[r] \in {ReduceScatter, AllGather}
      /\ step[r] \in Nat /\ piece[r] \in Nat
    BY RankFacts DEF ProgramOK, TypeOKProgram
<1> QED
    BY <1>1, TagType DEF Tag

LEMMA RecvsStable ==
    ASSUME NEW q, RecvsInBlock(q), recv_requests'[q] = recv_requests[q],
           phase'[q] = phase[q], step'[q] = step[q],
           pc'[q] \in {"idle", "batch", "waitSend"} => recv_requests[q] = <<>>
    PROVE  RecvsInBlock(q)'
BY DEF RecvsInBlock, RecvBlock

LEMMA RecvsEmpty ==
    ASSUME NEW q, recv_requests'[q] = <<>>
    PROVE  RecvsInBlock(q)'
BY DEF RecvsInBlock

LEMMA ReturnTypes ==
    ASSUME TypeInv, NEW r \in Ranks, NEW status \in Statuses, Return(r, status),
           calls' \in [Ranks -> 0..Len(Calls)], sequence' \in [Ranks -> Nat]
    PROVE  ProgramOK' /\ \A q \in Ranks : RecvsInBlock(q)'
<1> USE DEF TypeInv, TypeOK, ProgramOK
<1>1. memory[r].workbuf \in [Elements("workbuf") -> Seq(Contributions)]
    BY DEF TypeOKMemory
<1> DEFINE entry == [status |-> status, recvbuf |-> memory[r].workbuf]
           Entries == [status  : Statuses,
                       recvbuf : [Elements("workbuf") -> Seq(Contributions)]]
<1>2. entry \in Entries
    BY <1>1
<1>3. returned' = [returned EXCEPT ![r] = Append(@, entry)]
    BY DEF Return
<1>4. returned \in [Ranks -> Seq(Entries)]
    BY DEF TypeOKProgram
<1> HIDE DEF entry, Entries
<1>5. returned' \in [Ranks -> Seq(Entries)]
    BY <1>2, <1>3, <1>4
<1>6. returned' \in [Ranks -> Seq([status  : Statuses,
                        recvbuf : [Elements("workbuf") -> Seq(Contributions)]])]
    BY <1>5 DEF Entries
<1>7. /\ pc' \in [Ranks -> Locations]
      /\ phase' \in [Ranks -> {ReduceScatter, AllGather}]
      /\ batch' \in [Ranks -> Nat] /\ piece' \in [Ranks -> Nat]
    BY DEF TypeOKProgram, Return, Goto, Locations
<1>8. step' \in [Ranks -> 0..(WorldSize - 2)]
    BY WorldAssumption DEF TypeOKProgram, Return
<1>9. /\ recv_requests' \in [Ranks -> Seq(PostedRequests(RequestStates))]
      /\ send_requests' \in [Ranks -> Seq(PostedRequests(RequestStates))]
    BY DEF TypeOKProgram, Return
<1>10. ProgramOK'
    BY <1>6, <1>7, <1>8, <1>9 DEF TypeOKProgram
<1>11. ASSUME NEW q \in Ranks PROVE RecvsInBlock(q)'
    <2>1. CASE q = r
        <3>1. recv_requests'[q] = <<>>
            BY <2>1 DEF Return, TypeOKProgram
        <3> QED
            BY <3>1, RecvsEmpty
    <2>2. CASE q # r
        <3>1. /\ recv_requests'[q] = recv_requests[q] /\ phase'[q] = phase[q]
              /\ step'[q] = step[q] /\ pc'[q] = pc[q]
            BY <2>2 DEF Return, Goto, TypeOKProgram
        <3> QED
            BY <3>1, RecvsStable DEF RecvsInBlock
    <2> QED
        BY <2>1, <2>2
<1> QED
    BY <1>10, <1>11

LEMMA ReturnErrorTypes ==
    ASSUME TypeInv, NEW r \in Ranks, NEW status \in Statuses, ReturnError(r, status)
    PROVE  TypeOKMemory' /\ ProgramOK' /\ \A q \in Ranks : RecvsInBlock(q)'
BY ReturnTypes DEF ReturnError, TypeInv, TypeOK, TypeOKMemory, TypeOKProgram

LEMMA RefuseCallTypes ==
    ASSUME TypeInv, NEW r \in Ranks, RefuseCall(r)
    PROVE  TypeOKMemory' /\ ProgramOK' /\ \A q \in Ranks : RecvsInBlock(q)'
<1>1. Len(Calls) \in Nat /\ calls \in [Ranks -> 0..Len(Calls)] /\ sequence \in [Ranks -> Nat]
    BY CollectiveAssumption DEF TypeInv, TypeOK, TypeOKProgram
<1>2. calls' \in [Ranks -> 0..Len(Calls)] /\ sequence' \in [Ranks -> Nat]
    BY <1>1 DEF RefuseCall, MayCall
<1>3. PICK status \in {PG_ERR_INVALID_ARGUMENT, PG_ERR_UNSUPPORTED_DATATYPE} :
            Return(r, status)
    BY DEF RefuseCall
<1>4. status \in Statuses
    BY <1>3 DEF Statuses
<1> QED
    BY <1>2, <1>3, <1>4, ReturnTypes DEF RefuseCall, TypeInv, TypeOK, TypeOKMemory

LEMMA ReturnSuccessTypes ==
    ASSUME TypeInv, NEW r \in Ranks, ReturnSuccess(r)
    PROVE  TypeOKMemory' /\ ProgramOK' /\ \A q \in Ranks : RecvsInBlock(q)'
<1>1. calls' \in [Ranks -> 0..Len(Calls)] /\ sequence' \in [Ranks -> Nat]
    BY DEF ReturnSuccess, TypeInv, TypeOK, TypeOKProgram
<1>2. PG_SUCCESS \in Statuses
    BY DEF Statuses
<1> QED
    BY <1>1, <1>2, ReturnTypes DEF ReturnSuccess, TypeInv, TypeOK, TypeOKMemory

LEMMA BeginCallTypes ==
    ASSUME TypeInv, NEW r \in Ranks, BeginCall(r)
    PROVE  TypeOKMemory' /\ ProgramOK' /\ \A q \in Ranks : RecvsInBlock(q)'
<1> USE DEF TypeInv, TypeOK, ProgramOK
<1>1. Len(Calls) \in Nat /\ calls \in [Ranks -> 0..Len(Calls)]
    BY CollectiveAssumption DEF TypeOKProgram
<1>2. calls' \in [Ranks -> 0..Len(Calls)]
    BY <1>1 DEF BeginCall, MayCall
<1>3. <<(<<r, calls[r] + 1>>)>> \in Seq(Contributions)
    BY <1>1 DEF Contributions
<1> DEFINE input == [e \in Elements("workbuf") |-> <<(<<r, calls[r] + 1>>)>>]
<1>4. input \in [Elements("workbuf") -> Seq(Contributions)]
    BY <1>3
<1>5. memory' = [memory EXCEPT ![r].workbuf = input]
    BY DEF BeginCall
<1> HIDE DEF input
<1>6. TypeOKMemory'
    BY <1>4, <1>5 DEF TypeOKMemory
<1>7. pc' \in [Ranks -> Locations]
    BY DEF BeginCall, Goto, TypeOKProgram, Locations
<1>8. UNCHANGED <<phase, step, batch, piece, sequence, recv_requests, send_requests,
                  returned>>
    BY DEF BeginCall
<1>9. ProgramOK'
    BY <1>2, <1>7, <1>8 DEF TypeOKProgram
<1>10. ASSUME NEW q \in Ranks PROVE RecvsInBlock(q)'
    <2>1. pc'[q] \in {"idle", "batch", "waitSend"} => recv_requests[q] = <<>>
        BY DEF BeginCall, MayCall, Goto, RecvsInBlock, TypeOKProgram
    <2> QED
        BY <1>8, <2>1, RecvsStable
<1> QED
    BY <1>6, <1>9, <1>10

\* The steps of the loops, between the calls of the transport.
Loop(r) ==
    \/ BeginBatch(r)  \/ NextStep(r)    \/ BeginAllGather(r) \/ EndPostRecv(r)
    \/ EndPostSend(r) \/ EndWaitRecv(r) \/ EndBatch(r)

LEMMA LoopTypes ==
    ASSUME TypeInv, NEW r \in Ranks, Loop(r)
    PROVE  TypeOKMemory' /\ ProgramOK' /\ \A q \in Ranks : RecvsInBlock(q)'
<1> USE DEF TypeInv, TypeOK
<1>1. UNCHANGED <<memory, sequence, recv_requests, send_requests, calls, returned>>
    BY DEF Loop, BeginBatch, NextStep, BeginAllGather, EndPostRecv, EndPostSend,
           EndWaitRecv, EndBatch
<1>2. BeginPiece(r) \in Nat
    <2>1. batch[r] \in Nat
        BY DEF TypeOKProgram
    <2> QED
        BY <2>1, ConfigTypes, ProductInNat DEF BeginPiece
<1>3. pc' \in [Ranks -> Locations]
    BY DEF TypeOKProgram, Locations, Goto, Loop, BeginBatch, NextStep, BeginAllGather,
           EndPostRecv, EndPostSend, EndWaitRecv, EndBatch
<1>4. piece' \in [Ranks -> Nat] /\ batch' \in [Ranks -> Nat]
    <2>1. \/ piece' = [piece EXCEPT ![r] = BeginPiece(r)]
          \/ piece' = piece
        BY DEF Loop, BeginBatch, NextStep, BeginAllGather, EndPostRecv, EndPostSend,
               EndWaitRecv, EndBatch
    <2>2. \/ batch' = [batch EXCEPT ![r] = 0]
          \/ batch' = [batch EXCEPT ![r] = @ + 1]
          \/ batch' = batch
        BY DEF Loop, BeginBatch, NextStep, BeginAllGather, EndPostRecv, EndPostSend,
               EndWaitRecv, EndBatch
    <2>3. piece \in [Ranks -> Nat] /\ batch \in [Ranks -> Nat]
        BY DEF TypeOKProgram
    <2>4. piece' \in [Ranks -> Nat]
        BY <1>2, <2>1, <2>3
    <2>5. batch' \in [Ranks -> Nat]
        BY <2>2, <2>3
    <2> QED
        BY <2>4, <2>5
<1>5. phase' \in [Ranks -> {ReduceScatter, AllGather}]
    BY DEF TypeOKProgram, Loop, BeginBatch, NextStep, BeginAllGather,
           EndPostRecv, EndPostSend, EndWaitRecv, EndBatch
<1>6. step' \in [Ranks -> 0..(WorldSize - 2)]
    <2>1. \/ step[r] + 1 < WorldSize - 1 /\ step' = [step EXCEPT ![r] = @ + 1]
          \/ step' = [step EXCEPT ![r] = 0]
          \/ step' = step
        BY DEF Loop, BeginBatch, NextStep, BeginAllGather, EndPostRecv, EndPostSend,
               EndWaitRecv, EndBatch
    <2>2. step \in [Ranks -> 0..(WorldSize - 2)] /\ 0 \in 0..(WorldSize - 2)
        BY WorldAssumption DEF TypeOKProgram
    <2>3. step[r] + 1 < WorldSize - 1 => step[r] + 1 \in 0..(WorldSize - 2)
        BY <2>2, WorldAssumption
    <2> QED
        BY <2>1, <2>2, <2>3
<1>7. ProgramOK'
    BY <1>1, <1>3, <1>4, <1>5, <1>6 DEF ProgramOK, TypeOKProgram
<1>8. ASSUME NEW q \in Ranks PROVE RecvsInBlock(q)'
    <2>1. CASE q = r /\ recv_requests[r] = <<>>
        BY <1>1, <2>1, RecvsEmpty
    <2>2. CASE q = r /\ recv_requests[r] # <<>>
        <3>1. EndPostRecv(r) \/ EndPostSend(r)
            BY <2>2 DEF RecvsInBlock, Loop, BeginBatch, NextStep, BeginAllGather,
                        EndWaitRecv, EndBatch
        <3>2. UNCHANGED <<phase, step>> /\ pc'[r] \in {"postSend", "waitRecv"}
            BY <3>1 DEF EndPostRecv, EndPostSend, Goto, TypeOKProgram
        <3> QED
            BY <1>1, <2>2, <3>2, RecvsStable
    <2>3. CASE q # r
        <3>1. pc'[q] = pc[q] /\ phase'[q] = phase[q] /\ step'[q] = step[q]
            BY <2>3 DEF TypeOKProgram, Goto, Loop, BeginBatch, NextStep, BeginAllGather,
                        EndPostRecv, EndPostSend, EndWaitRecv, EndBatch
        <3> QED
            BY <1>1, <3>1, RecvsStable DEF RecvsInBlock
    <2> QED
        BY <2>1, <2>2, <2>3
<1> QED
    BY <1>1, <1>7, <1>8 DEF TypeOKMemory

LEMMA SendPostedTypes ==
    ASSUME TypeInv, NEW r \in Ranks, NEW request \in RequestStates, SendToPost(r),
           SendPosted(r, request)
    PROVE  TypeOKMemory' /\ ProgramOK' /\ \A q \in Ranks : RecvsInBlock(q)'
<1> DEFINE posted == PostedRequest(request, PieceOffset(r), PieceLength(r, SendBlock(r)))
<1> USE DEF TypeInv, TypeOK
<1>1. posted \in PostedRequests(RequestStates)
    BY PostedRegions DEF ProgramOK, PostedRequest, PostedRequests
<1>2. send_requests' = [send_requests EXCEPT ![r] = Append(@, posted)]
    BY DEF SendPosted
<1> HIDE DEF posted
<1>3. send_requests' \in [Ranks -> Seq(PostedRequests(RequestStates))]
    BY <1>1, <1>2 DEF TypeOKProgram
<1>4. /\ piece' = [piece EXCEPT ![r] = @ + 1]
      /\ UNCHANGED <<pc, phase, step, batch, sequence, recv_requests, calls,
                     returned, memory>>
    BY DEF SendPosted
<1>5. piece' \in [Ranks -> Nat]
    BY <1>4 DEF TypeOKProgram
<1>6. ProgramOK'
    BY <1>3, <1>4, <1>5 DEF ProgramOK, TypeOKProgram
<1> QED
    BY <1>4, <1>6, RecvsStable DEF TypeOKMemory, RecvsInBlock

LEMMA RecvPostedTypes ==
    ASSUME TypeInv, NEW r \in Ranks, NEW request \in RequestStates, RecvToPost(r),
           RecvPosted(r, request)
    PROVE  TypeOKMemory' /\ ProgramOK' /\ \A q \in Ranks : RecvsInBlock(q)'
<1> DEFINE posted == PostedRequest(request, PieceOffset(r), PieceLength(r, RecvBlock(r)))
<1> USE DEF TypeInv, TypeOK
<1>1. posted \in PostedRequests(RequestStates)
    BY PostedRegions DEF ProgramOK, PostedRequest, PostedRequests
<1>2. posted.element_offset + posted.element_count <= BlockCount(RecvBlock(r))
    BY PostedRegions DEF ProgramOK, PostedRequest
<1>3. recv_requests' = [recv_requests EXCEPT ![r] = Append(@, posted)]
    BY DEF RecvPosted
<1> HIDE DEF posted
<1>4. /\ recv_requests' \in [Ranks -> Seq(PostedRequests(RequestStates))]
      /\ recv_requests[r] \in Seq(PostedRequests(RequestStates))
      /\ recv_requests'[r] = Append(recv_requests[r], posted)
      /\ \A q \in Ranks \ {r} : recv_requests'[q] = recv_requests[q]
    BY <1>1, <1>3 DEF TypeOKProgram
<1>5. /\ piece' = [piece EXCEPT ![r] = @ + 1]
      /\ UNCHANGED <<pc, phase, step, batch, sequence, send_requests, calls,
                     returned, memory>>
    BY DEF RecvPosted
<1>6. piece' \in [Ranks -> Nat]
    BY <1>5 DEF TypeOKProgram
<1>7. ProgramOK'
    BY <1>4, <1>5, <1>6 DEF ProgramOK, TypeOKProgram
<1>8. RecvsInBlock(r)'
    <2>1. pc'[r] = "postRecv" /\ RecvBlock(r)' = RecvBlock(r)
        BY <1>5 DEF RecvToPost, RecvBlock
    <2>2. \A k \in 1..Len(recv_requests'[r]) :
            recv_requests'[r][k].element_offset + recv_requests'[r][k].element_count
                <= BlockCount(RecvBlock(r))
        BY <1>1, <1>2, <1>4, AppendProperties DEF RecvsInBlock
    <2> QED
        BY <2>1, <2>2 DEF RecvsInBlock, BlockCount
<1>9. \A q \in Ranks \ {r} : RecvsInBlock(q)'
    BY <1>4, <1>5, RecvsStable DEF RecvsInBlock
<1> QED
    BY <1>5, <1>7, <1>8, <1>9 DEF TypeOKMemory

LEMMA SendWaitedTypes ==
    ASSUME TypeInv, NEW r \in Ranks, SendWaited(r)
    PROVE  TypeOKMemory' /\ ProgramOK' /\ \A q \in Ranks : RecvsInBlock(q)'
<1> USE DEF TypeInv, TypeOK
<1>1. /\ send_requests' = [send_requests EXCEPT ![r] = Tail(@)]
      /\ send_requests[r] # <<>>
      /\ UNCHANGED <<pc, phase, step, batch, piece, sequence, recv_requests, calls,
                     returned, memory>>
    BY DEF SendWaited
<1>2. Tail(send_requests[r]) \in Seq(PostedRequests(RequestStates))
    <2>1. send_requests[r] \in Seq(PostedRequests(RequestStates))
        BY DEF TypeOKProgram
    <2> QED
        BY <1>1, <2>1
<1>3. ProgramOK'
    BY <1>1, <1>2 DEF ProgramOK, TypeOKProgram
<1> QED
    BY <1>1, <1>3, RecvsStable DEF TypeOKMemory, RecvsInBlock

\* Reducing a received piece combines values that are there, inside the block.
LEMMA ReduceTypes ==
    ASSUME TypeOKMemory, ProgramOK, NEW r \in Ranks,
           NEW posted \in PostedRequests(RequestStates),
           posted.element_offset + posted.element_count <= BlockCount(RecvBlock(r)),
           memory' = Stored(r, ReduceTarget(r, posted),
                            reduce_in_place(Contents(r, ReduceTarget(r, posted)),
                                            Contents(r, ReduceSource(posted))))
    PROVE  TypeOKMemory'
<1> DEFINE target == ReduceTarget(r, posted)
           source == ReduceSource(posted)
           data   == reduce_in_place(Contents(r, target), Contents(r, source))
<1>1. posted.element_offset \in Nat /\ posted.element_count \in Nat
    BY DEF PostedRequests
<1>2. /\ BlockOffset(RecvBlock(r)) \in Nat /\ BlockCount(RecvBlock(r)) \in Nat
      /\ BlockOffset(RecvBlock(r)) + BlockCount(RecvBlock(r)) <= Count
      /\ BlockCount(RecvBlock(r)) <= TemporaryLength /\ TemporaryLength \in Nat
    BY BlockTypes, BlockBounds
<1>3. /\ (BlockOffset(RecvBlock(r)) + posted.element_offset) + posted.element_count <= Count
      /\ BlockOffset(RecvBlock(r)) + posted.element_offset \in Nat
      /\ posted.element_offset + posted.element_count <= TemporaryLength
    BY <1>1, <1>2, CountAssumption
<1>4. target \in Regions /\ source \in Regions
    BY <1>1, <1>3 DEF ReduceTarget, ReduceSource, Region, Regions, BufferLength
<1>5. target.length = posted.element_count /\ source.length = posted.element_count
    BY DEF ReduceTarget, ReduceSource, Region
<1> HIDE DEF target, source
<1>6. ASSUME NEW i \in DOMAIN data PROVE data[i] \in Seq(Contributions)
    <2>1. i \in 0..(posted.element_count - 1)
        BY <1>4, <1>5, ContentsType DEF reduce_in_place
    <2>2. /\ Contents(r, target)[i] \in Seq(Contributions)
          /\ Contents(r, source)[i] \in Seq(Contributions)
        BY <1>4, <1>5, <2>1, ContentsType
    <2>3. data[i] = Contents(r, target)[i] \o Contents(r, source)[i]
        BY <1>6 DEF reduce_in_place
    <2> QED
        BY <2>2, <2>3, ConcatProperties
<1>7. memory' = Stored(r, target, data)
    BY DEF target, source
<1> HIDE DEF data
<1> QED
    BY <1>4, <1>6, <1>7, StoredType

LEMMA RecvWaitedTypes ==
    ASSUME TypeInv, NEW r \in Ranks, RecvWaited(r)
    PROVE  TypeOKMemory' /\ ProgramOK' /\ \A q \in Ranks : RecvsInBlock(q)'
<1> DEFINE posted == Head(recv_requests[r])
<1> USE DEF TypeInv, TypeOK
<1>1. /\ recv_requests[r] \in Seq(PostedRequests(RequestStates)) /\ recv_requests[r] # <<>>
      /\ recv_requests \in [Ranks -> Seq(PostedRequests(RequestStates))]
    BY DEF TypeOKProgram, RecvWaited
<1>2. /\ posted \in PostedRequests(RequestStates)
      /\ Tail(recv_requests[r]) \in Seq(PostedRequests(RequestStates))
      /\ posted = recv_requests[r][1] /\ 1 \in 1..Len(recv_requests[r])
    BY <1>1
<1>3. /\ recv_requests' = [recv_requests EXCEPT ![r] = Tail(@)]
      /\ UNCHANGED <<pc, phase, step, batch, piece, sequence, send_requests, calls,
                     returned>>
      /\ pc[r] = "waitRecv"
    BY DEF RecvWaited
<1>4. TypeOKMemory'
    <2>1. CASE phase[r] = ReduceScatter
        <3>1. posted.element_offset + posted.element_count <= BlockCount(RecvBlock(r))
            BY <1>2 DEF RecvsInBlock
        <3>2. memory' = Stored(r, ReduceTarget(r, posted),
                               reduce_in_place(Contents(r, ReduceTarget(r, posted)),
                                               Contents(r, ReduceSource(posted))))
            BY <2>1 DEF RecvWaited
        <3> QED
            BY <1>2, <3>1, <3>2, ReduceTypes DEF ProgramOK
    <2>2. CASE phase[r] # ReduceScatter
        BY <2>2 DEF RecvWaited, TypeOKMemory
    <2> QED
        BY <2>1, <2>2
<1>5. ProgramOK'
    BY <1>1, <1>2, <1>3 DEF ProgramOK, TypeOKProgram
<1>6. RecvsInBlock(r)'
    <2>1. RecvBlock(r)' = RecvBlock(r) /\ pc'[r] = "waitRecv"
          /\ recv_requests'[r] = Tail(recv_requests[r])
        BY <1>1, <1>3 DEF RecvBlock
    <2>2. ASSUME NEW k \in 1..Len(recv_requests'[r])
          PROVE  recv_requests'[r][k].element_offset + recv_requests'[r][k].element_count
                    <= BlockCount(RecvBlock(r))
        <3>1. /\ k + 1 \in 1..Len(recv_requests[r])
              /\ recv_requests'[r][k] = recv_requests[r][k + 1]
            BY <1>1, <2>1
        <3> QED
            BY <3>1 DEF RecvsInBlock
    <2> QED
        BY <2>1, <2>2 DEF RecvsInBlock, BlockCount
<1>7. \A q \in Ranks \ {r} : RecvsInBlock(q)'
    BY <1>1, <1>3, RecvsStable DEF RecvsInBlock
<1> QED
    BY <1>4, <1>5, <1>6, <1>7

-----------------------------------------------------------------------------
(* The theorem.                                                              *)

LEMMA ProceedTypes ==
    ASSUME TypeInv, NEW r \in Ranks, Proceed(r)
    PROVE  TypeOKMemory' /\ ProgramOK' /\ \A q \in Ranks : RecvsInBlock(q)'
<1>1. PG_ERR_TAG_RANGE \in Statuses
    BY DEF Statuses
<1>2. CASE RefuseCall(r)
    BY <1>2, RefuseCallTypes
<1>3. CASE BeginCall(r)
    BY <1>3, BeginCallTypes
<1>4. CASE ReturnSuccess(r)
    BY <1>4, ReturnSuccessTypes
<1>5. CASE TagOutOfRange(r)
    BY <1>1, <1>5, ReturnErrorTypes DEF TagOutOfRange
<1>6. CASE Loop(r)
    BY <1>6, LoopTypes
<1> QED
    BY <1>2, <1>3, <1>4, <1>5, <1>6 DEF Proceed, Loop

LEMMA PostRecvTypes ==
    ASSUME TypeInv, NEW r \in Ranks, PostRecv(r)
    PROVE  TypeInv'
<1>1. ProgramOK /\ TypeOKVerbs /\ PG_ERR_TRANSPORT \in Statuses
    BY DEF TypeInv, TypeOK, ProgramOK, Statuses
<1>2. RecvToPost(r) /\ RecvRegion(r) \in Regions /\ RecvBytes(r) \in Nat /\ Tag(r) \in Nat
    BY <1>1, PostedRegions, TagTypes DEF PostRecv
<1>3. CASE /\ post_receive_previous(r, RecvRegion(r), RecvBytes(r), Tag(r), transfer_mode(r))
           /\ RecvPosted(r, NewRequest(r, "recv", Tag(r), RecvBytes(r), transfer_mode(r)))
    <2>1. NewRequest(r, "recv", Tag(r), RecvBytes(r), transfer_mode(r)) \in RequestStates
        BY <1>1, <1>2, <1>3, NewRequestType DEF post_receive_previous
    <2>2. TypeOKMemory' /\ ProgramOK' /\ \A q \in Ranks : RecvsInBlock(q)'
        BY <1>2, <1>3, <2>1, RecvPostedTypes
    <2>3. TypeOKVerbs'
        BY <1>1, <1>2, <1>3, PostReceiveTypes
    <2> QED
        BY <2>2, <2>3 DEF TypeInv, TypeOK, ProgramOK
<1>4. CASE post_receive_throws(r) /\ ReturnError(r, PG_ERR_TRANSPORT)
    <2>1. TypeOKMemory' /\ ProgramOK' /\ \A q \in Ranks : RecvsInBlock(q)'
        BY <1>1, <1>4, ReturnErrorTypes
    <2>2. TypeOKVerbs'
        BY <1>1, <1>4, PostReceiveThrowsTypes
    <2> QED
        BY <2>1, <2>2 DEF TypeInv, TypeOK, ProgramOK
<1> QED
    BY <1>3, <1>4 DEF PostRecv

LEMMA PostSendStepTypes ==
    ASSUME TypeInv, NEW r \in Ranks, PostSend(r)
    PROVE  TypeInv'
<1>1. ProgramOK /\ TypeOKVerbs /\ PG_ERR_TRANSPORT \in Statuses
    BY DEF TypeInv, TypeOK, ProgramOK, Statuses
<1>2. SendToPost(r) /\ SendRegion(r) \in Regions /\ SendBytes(r) \in Nat /\ Tag(r) \in Nat
    BY <1>1, PostedRegions, TagTypes DEF PostSend
<1>3. CASE /\ post_send_next(r, SendRegion(r), SendBytes(r), Tag(r), transfer_mode(r))
           /\ SendPosted(r, NewRequest(r, "send", Tag(r), SendBytes(r), transfer_mode(r)))
    <2>1. NewRequest(r, "send", Tag(r), SendBytes(r), transfer_mode(r)) \in RequestStates
        BY <1>1, <1>2, <1>3, NewRequestType DEF post_send_next
    <2>2. TypeOKMemory' /\ ProgramOK' /\ \A q \in Ranks : RecvsInBlock(q)'
        BY <1>2, <1>3, <2>1, SendPostedTypes
    <2>3. TypeOKVerbs'
        BY <1>1, <1>2, <1>3, PostSendTypes
    <2> QED
        BY <2>2, <2>3 DEF TypeInv, TypeOK, ProgramOK
<1>4. CASE /\ post_send_throws(r, SendBytes(r), Tag(r), transfer_mode(r))
           /\ ReturnError(r, PG_ERR_TRANSPORT)
    <2>1. TypeOKMemory' /\ ProgramOK' /\ \A q \in Ranks : RecvsInBlock(q)'
        BY <1>1, <1>4, ReturnErrorTypes
    <2>2. TypeOKVerbs'
        BY <1>1, <1>4, PostSendThrowsTypes
    <2> QED
        BY <2>1, <2>2 DEF TypeInv, TypeOK, ProgramOK
<1> QED
    BY <1>3, <1>4 DEF PostSend

LEMMA WaitTypes ==
    ASSUME TypeInv, NEW r \in Ranks, Wait(r)
    PROVE  TypeInv'
<1>1. TypeOKVerbs /\ PG_ERR_TRANSPORT \in Statuses /\ PG_ERR_UNSUPPORTED_OPERATION \in Statuses
    BY DEF TypeInv, TypeOK, Statuses
<1>2. PICK request \in Awaited(r) : consume_request(r, request)
    BY DEF Wait
<1>3. TypeOKVerbs'
    BY <1>1, <1>2, ConsumeRequestTypes
<1>4. \/ RecvWaited(r) \/ SendWaited(r)
      \/ ReturnError(r, PG_ERR_UNSUPPORTED_OPERATION)
      \/ ReturnError(r, PG_ERR_TRANSPORT)
    BY DEF Wait, OperationUnsupported
<1>5. TypeOKMemory' /\ ProgramOK' /\ \A q \in Ranks : RecvsInBlock(q)'
    BY <1>1, <1>4, RecvWaitedTypes, SendWaitedTypes, ReturnErrorTypes
<1> QED
    BY <1>3, <1>5 DEF TypeInv, TypeOK, ProgramOK

\* A step of the fabric or a stutter leaves the programs alone.
LEMMA ProgramUnchanged ==
    ASSUME TypeInv, UNCHANGED program_vars
    PROVE  ProgramOK' /\ \A q \in Ranks : RecvsInBlock(q)'
<1>1. UNCHANGED <<pc, phase, step, batch, piece, sequence, recv_requests, send_requests,
                  calls, returned>>
    BY DEF program_vars
<1>2. ProgramOK'
    BY <1>1 DEF TypeInv, TypeOK, ProgramOK, TypeOKProgram
<1> QED
    BY <1>1, <1>2, RecvsStable DEF TypeInv, RecvsInBlock

LEMMA InitTypes == Init => TypeInv
<1> SUFFICES ASSUME Init PROVE TypeInv
    OBVIOUS
<1>1. TypeOKMemory
    BY DEF Init, InitMemory, TypeOKMemory
<1>2. ProgramOK
    <2>1. 0 \in 0..(WorldSize - 2) /\ Len(Calls) \in Nat
        BY WorldAssumption, CollectiveAssumption
    <2> QED
        BY <2>1, CollectiveAssumption
           DEF Init, InitProgram, ProgramOK, TypeOKProgram, Locations
<1>3. TypeOKVerbs
    BY DEF Init, InitVerbs, TypeOKVerbs
<1>4. ASSUME NEW q \in Ranks PROVE RecvsInBlock(q)
    BY DEF Init, InitProgram, RecvsInBlock
<1> QED
    BY <1>1, <1>2, <1>3, <1>4 DEF TypeInv, TypeOK, ProgramOK

LEMMA NextTypes == TypeInv /\ [Next]_vars => TypeInv'
<1> SUFFICES ASSUME TypeInv, [Next]_vars PROVE TypeInv'
    OBVIOUS
<1>1. TypeOKMemory /\ TypeOKVerbs
    BY DEF TypeInv, TypeOK
<1>2. ASSUME NEW r \in Ranks, RunRank(r) PROVE TypeInv'
    <2>1. CASE Proceed(r) /\ UNCHANGED verbs_vars
        <3>1. TypeOKVerbs'
            BY <1>1, <2>1 DEF verbs_vars, TypeOKVerbs
        <3> QED
            BY <2>1, <3>1, ProceedTypes DEF TypeInv, TypeOK, ProgramOK
    <2>2. CASE Poll(r)
        <3>1. TypeOKVerbs'
            BY <1>1, <2>2, HandleCompletionTypes DEF Poll
        <3>2. UNCHANGED <<program_vars, memory>>
            BY <2>2 DEF Poll
        <3> QED
            BY <1>1, <3>1, <3>2, ProgramUnchanged
               DEF TypeInv, TypeOK, ProgramOK, TypeOKMemory
    <2>3. CASE PollFails(r)
        <3>1. TypeOKVerbs'
            BY <1>1, <2>3 DEF PollFails, verbs_vars, TypeOKVerbs
        <3>2. PG_ERR_TRANSPORT \in Statuses /\ ReturnError(r, PG_ERR_TRANSPORT)
            BY <2>3 DEF PollFails, Statuses
        <3>3. TypeOKMemory' /\ ProgramOK' /\ \A q \in Ranks : RecvsInBlock(q)'
            BY <1>1, <3>2, ReturnErrorTypes
        <3> QED
            BY <3>1, <3>3 DEF TypeInv, TypeOK, ProgramOK
    <2> QED
        BY <1>2, <2>1, <2>2, <2>3, PostRecvTypes, PostSendStepTypes, WaitTypes DEF RunRank
<1>3. ASSUME NEW s \in Ranks, Fabric(s) PROVE TypeInv'
    <2>1. TypeOKMemory' /\ TypeOKVerbs'
        <3>1. CASE Deliver(s)
            BY <1>1, <3>1, DeliverTypes
        <3>2. CASE Acknowledge(s)
            BY <1>1, <3>2, AcknowledgeTypes DEF Acknowledge, TypeOKMemory
        <3>3. CASE BreakLink(s)
            BY <1>1, <3>3, BreakLinkTypes DEF BreakLink, TypeOKMemory
        <3>4. CASE FlushSend(s)
            BY <1>1, <3>4, FlushSendTypes DEF FlushSend, TypeOKMemory
        <3> QED
            BY <1>3, <3>1, <3>2, <3>3, <3>4 DEF Fabric
    <2> QED
        BY <1>3, <2>1, ProgramUnchanged DEF Fabric, TypeInv, TypeOK, ProgramOK
<1>4. CASE UNCHANGED vars
    <2>1. TypeOKMemory' /\ TypeOKVerbs' /\ UNCHANGED program_vars
        BY <1>1, <1>4 DEF vars, verbs_vars, TypeOKMemory, TypeOKVerbs
    <2> QED
        BY <2>1, ProgramUnchanged DEF TypeInv, TypeOK, ProgramOK
<1> QED
    BY <1>2, <1>3, <1>4 DEF Next, Finished

\* Every variable keeps its type: for every world size, count, configuration,
\* queue depth and fault set no work request, descriptor or reduction ever
\* points outside workbuf or temporary_buffer (ring_collectives.cpp:202, 240,
\* 258, 355, 390).
THEOREM TypeCorrect == Spec => []TypeOK
<1>1. TypeInv => TypeOK
    BY DEF TypeInv
<1> QED
    BY <1>1, InitTypes, NextTypes, PTL DEF Spec

-----------------------------------------------------------------------------
(* The link between two neighbours.                                          *)

\* What LinkInOrder says of one link, of the sends under way on it, the receive
\* WRs at its other end and the unread descriptors that announce them.
SendsMatched(sends, recvs) ==
    /\ Len(sends) <= Len(recvs)
    /\ \A k \in 1..Len(sends) : SendMatches(sends[k], recvs[k])

RecvsAnnounced(sends, recvs, descriptors) ==
    /\ Len(recvs) = Len(sends) + Len(descriptors)
    /\ \A k \in 1..Len(descriptors) : DescribesRecv(descriptors[k], recvs[Len(sends) + k])

Matched(s)   == SendsMatched(send_queue[s], recv_queue[NextRank(s)])
Announced(s) == RecvsAnnounced(send_queue[s], recv_queue[NextRank(s)], control[NextRank(s)])

LinkOK(s) == ~qp_error[s] => Matched(s) /\ (Unfailed(s) => Announced(s))

\* A rank inside a call has had no call fail: after a failure it makes none.
FailedStaysOut(r) == pc[r] # "idle" => Unfailed(r)

LinkInv ==
    /\ TypeInv
    /\ \A r \in Ranks : LinkOK(r) /\ FailedStaysOut(r)

-----------------------------------------------------------------------------
(* The queues of one link, as sequences.                                     *)

\* A receive posted and announced joins the ends of both.
LEMMA AnnounceRecv ==
    ASSUME NEW sends \in Seq(SendWrs), NEW recvs \in Seq(RecvWrs),
           NEW descriptors \in Seq(ControlMessages),
           NEW recv \in RecvWrs, NEW descriptor \in ControlMessages,
           DescribesRecv(descriptor, recv), SendsMatched(sends, recvs)
    PROVE  /\ SendsMatched(sends, Append(recvs, recv))
           /\ RecvsAnnounced(sends, recvs, descriptors) =>
                RecvsAnnounced(sends, Append(recvs, recv), Append(descriptors, descriptor))
<1> DEFINE recvs2 == Append(recvs, recv)
           descriptors2 == Append(descriptors, descriptor)
<1>1. /\ recvs2 \in Seq(RecvWrs) /\ Len(recvs2) = Len(recvs) + 1
      /\ recvs2[Len(recvs) + 1] = recv
      /\ \A k \in 1..Len(recvs) : recvs2[k] = recvs[k]
    OBVIOUS
<1>2. /\ Len(descriptors2) = Len(descriptors) + 1
      /\ descriptors2[Len(descriptors) + 1] = descriptor
      /\ \A k \in 1..Len(descriptors) : descriptors2[k] = descriptors[k]
    OBVIOUS
<1>3. Len(sends) \in Nat /\ Len(recvs) \in Nat /\ Len(descriptors) \in Nat
    OBVIOUS
<1> HIDE DEF recvs2, descriptors2
<1>4. SendsMatched(sends, recvs2)
    BY <1>1, <1>3 DEF SendsMatched
<1>5. ASSUME RecvsAnnounced(sends, recvs, descriptors)
      PROVE  RecvsAnnounced(sends, recvs2, descriptors2)
    <2>1. Len(recvs) = Len(sends) + Len(descriptors)
        BY <1>5 DEF RecvsAnnounced
    <2>2. ASSUME NEW k \in 1..Len(descriptors2)
          PROVE  DescribesRecv(descriptors2[k], recvs2[Len(sends) + k])
        <3>1. CASE k = Len(descriptors) + 1
            <4>1. Len(sends) + k = Len(recvs) + 1
                BY <1>3, <2>1, <3>1
            <4> QED
                BY <1>1, <1>2, <3>1, <4>1
        <3>2. CASE k # Len(descriptors) + 1
            <4>1. k \in 1..Len(descriptors) /\ Len(sends) + k \in 1..Len(recvs)
                BY <1>2, <1>3, <2>1, <3>2
            <4> QED
                BY <1>1, <1>2, <1>5, <4>1 DEF RecvsAnnounced
        <3> QED
            BY <3>1, <3>2
    <2> QED
        BY <1>1, <1>2, <1>3, <2>1, <2>2 DEF RecvsAnnounced
<1> QED
    BY <1>4, <1>5 DEF recvs2, descriptors2

\* A send takes the oldest descriptor, and the receive WR that one announced.
LEMMA SendAnnounced ==
    ASSUME NEW sends \in Seq(SendWrs), NEW recvs \in Seq(RecvWrs),
           NEW descriptors \in Seq(ControlMessages), descriptors # <<>>,
           NEW send \in SendWrs,
           \A recv \in RecvWrs : DescribesRecv(Head(descriptors), recv) => SendMatches(send, recv),
           SendsMatched(sends, recvs), RecvsAnnounced(sends, recvs, descriptors)
    PROVE  /\ SendsMatched(Append(sends, send), recvs)
           /\ RecvsAnnounced(Append(sends, send), recvs, Tail(descriptors))
<1> DEFINE sends2 == Append(sends, send)
           rest == Tail(descriptors)
<1>1. /\ Len(sends2) = Len(sends) + 1 /\ sends2[Len(sends) + 1] = send
      /\ \A k \in 1..Len(sends) : sends2[k] = sends[k]
    OBVIOUS
<1>2. /\ Len(descriptors) = Len(rest) + 1 /\ Head(descriptors) = descriptors[1]
      /\ \A k \in 1..Len(rest) : rest[k] = descriptors[k + 1]
    OBVIOUS
<1>3. Len(sends) \in Nat /\ Len(recvs) \in Nat /\ Len(rest) \in Nat
    OBVIOUS
<1> HIDE DEF sends2, rest
<1>4. Len(recvs) = Len(sends) + Len(rest) + 1
    BY <1>2, <1>3 DEF RecvsAnnounced
<1>5. SendMatches(send, recvs[Len(sends) + 1])
    <2>1. 1 \in 1..Len(descriptors) /\ Len(sends) + 1 \in 1..Len(recvs)
        BY <1>2, <1>3, <1>4
    <2>2. DescribesRecv(Head(descriptors), recvs[Len(sends) + 1])
        BY <1>2, <2>1 DEF RecvsAnnounced
    <2>3. recvs[Len(sends) + 1] \in RecvWrs
        BY <2>1
    <2> QED
        BY <2>2, <2>3
<1>6. SendsMatched(sends2, recvs)
    <2>1. ASSUME NEW k \in 1..Len(sends2) PROVE SendMatches(sends2[k], recvs[k])
        <3>1. CASE k = Len(sends) + 1
            BY <1>1, <1>5, <3>1
        <3>2. CASE k # Len(sends) + 1
            <4>1. k \in 1..Len(sends)
                BY <1>1, <1>3, <3>2
            <4> QED
                BY <1>1, <4>1 DEF SendsMatched
        <3> QED
            BY <3>1, <3>2
    <2> QED
        BY <1>1, <1>3, <1>4, <2>1 DEF SendsMatched
<1>7. RecvsAnnounced(sends2, recvs, rest)
    <2>1. ASSUME NEW k \in 1..Len(rest)
          PROVE  DescribesRecv(rest[k], recvs[Len(sends2) + k])
        <3>1. k + 1 \in 1..Len(descriptors) /\ Len(sends2) + k = Len(sends) + (k + 1)
            BY <1>1, <1>2, <1>3
        <3>2. DescribesRecv(descriptors[k + 1], recvs[Len(sends) + (k + 1)])
            BY <3>1 DEF RecvsAnnounced
        <3>3. rest[k] = descriptors[k + 1]
            BY <1>2
        <3> QED
            BY <3>1, <3>2, <3>3
    <2>2. Len(recvs) = Len(sends2) + Len(rest)
        BY <1>1, <1>3, <1>4
    <2> QED
        BY <2>1, <2>2 DEF RecvsAnnounced
<1> QED
    BY <1>6, <1>7 DEF sends2, rest

\* A delivery takes the oldest of both.
LEMMA TakeOldest ==
    ASSUME NEW sends \in Seq(SendWrs), NEW recvs \in Seq(RecvWrs),
           NEW descriptors \in Seq(ControlMessages), sends # <<>>, recvs # <<>>,
           SendsMatched(sends, recvs)
    PROVE  /\ SendsMatched(Tail(sends), Tail(recvs))
           /\ RecvsAnnounced(sends, recvs, descriptors) =>
                RecvsAnnounced(Tail(sends), Tail(recvs), descriptors)
<1> DEFINE sends2 == Tail(sends)
           recvs2 == Tail(recvs)
<1>1. /\ Len(sends) = Len(sends2) + 1 /\ Len(sends2) \in Nat
      /\ \A k \in 1..Len(sends2) : sends2[k] = sends[k + 1]
    OBVIOUS
<1>2. /\ Len(recvs) = Len(recvs2) + 1 /\ Len(recvs2) \in Nat
      /\ \A k \in 1..Len(recvs2) : recvs2[k] = recvs[k + 1]
    OBVIOUS
<1>3. Len(descriptors) \in Nat
    OBVIOUS
<1> HIDE DEF sends2, recvs2
<1>4. SendsMatched(sends2, recvs2)
    <2>1. Len(sends2) <= Len(recvs2)
        BY <1>1, <1>2 DEF SendsMatched
    <2>2. ASSUME NEW k \in 1..Len(sends2) PROVE SendMatches(sends2[k], recvs2[k])
        <3>1. k + 1 \in 1..Len(sends) /\ k \in 1..Len(recvs2)
            BY <1>1, <1>2, <2>1
        <3> QED
            BY <1>1, <1>2, <3>1 DEF SendsMatched
    <2> QED
        BY <2>1, <2>2 DEF SendsMatched
<1>5. ASSUME RecvsAnnounced(sends, recvs, descriptors)
      PROVE  RecvsAnnounced(sends2, recvs2, descriptors)
    <2>1. Len(recvs2) = Len(sends2) + Len(descriptors)
        BY <1>1, <1>2, <1>3, <1>5 DEF RecvsAnnounced
    <2>2. ASSUME NEW k \in 1..Len(descriptors)
          PROVE  DescribesRecv(descriptors[k], recvs2[Len(sends2) + k])
        <3>1. /\ Len(sends2) + k \in 1..Len(recvs2)
              /\ (Len(sends2) + k) + 1 = Len(sends) + k
            BY <1>1, <1>2, <1>3, <2>1
        <3> QED
            BY <1>2, <1>5, <3>1 DEF RecvsAnnounced
    <2> QED
        BY <2>1, <2>2 DEF RecvsAnnounced
<1> QED
    BY <1>4, <1>5 DEF sends2, recvs2

-----------------------------------------------------------------------------
(* Steps of the ranks and the fabric.                                        *)

LEMMA SmallMod ==
    ASSUME NEW n \in Nat, n > 0
    PROVE  /\ n % n = 0
           /\ \A a \in Nat : a < n => a % n = a
BY SMT

LEMMA NextRankInjective ==
    ASSUME NEW s \in Ranks, NEW t \in Ranks, NextRank(s) = NextRank(t)
    PROVE  s = t
<1>1. ASSUME NEW r \in Ranks, r + 1 < WorldSize
      PROVE  NextRank(r) = r + 1
    BY <1>1, SmallMod, WorldAssumption DEF Ranks, NextRank
<1>2. ASSUME NEW r \in Ranks, ~(r + 1 < WorldSize)
      PROVE  r + 1 = WorldSize /\ NextRank(r) = 0
    <2>1. r + 1 = WorldSize
        BY <1>2, WorldAssumption DEF Ranks
    <2>2. WorldSize \in Nat /\ WorldSize > 0
        BY WorldAssumption
    <2> QED
        BY <2>1, <2>2, SmallMod DEF NextRank
<1>3. s \in Nat /\ t \in Nat /\ WorldSize \in Nat
    BY WorldAssumption DEF Ranks
<1> QED
    BY <1>1, <1>2, <1>3

\* What LinkOK(s) reads of the state.
LEMMA LinkStable ==
    ASSUME NEW s, LinkOK(s), qp_error'[s] = qp_error[s],
           send_queue'[s] = send_queue[s],
           recv_queue'[NextRank(s)] = recv_queue[NextRank(s)],
           control'[NextRank(s)] = control[NextRank(s)],
           Unfailed(s)' => Unfailed(s)
    PROVE  LinkOK(s)'
BY DEF LinkOK, Matched, Announced

\* A call returns with an error: from then on the rank has failed.
LEMMA ReturnFails ==
    ASSUME TypeInv, NEW r \in Ranks, NEW status \in Statuses, status # PG_SUCCESS,
           Return(r, status)
    PROVE  ~Unfailed(r)' /\ \A q \in Ranks \ {r} : Unfailed(q)' = Unfailed(q)
<1> DEFINE entry == [status |-> status, recvbuf |-> memory[r].workbuf]
           Entries == [status  : Statuses,
                       recvbuf : [Elements("workbuf") -> Seq(Contributions)]]
<1>1. entry.status # PG_SUCCESS
    OBVIOUS
<1>2. returned' = [returned EXCEPT ![r] = Append(@, entry)]
    BY DEF Return
<1>3. returned \in [Ranks -> Seq(Entries)]
    BY DEF TypeInv, TypeOK, TypeOKProgram
<1> HIDE DEF entry, Entries
<1>4. /\ returned'[r] = Append(returned[r], entry) /\ returned[r] \in Seq(Entries)
      /\ \A q \in Ranks \ {r} : returned'[q] = returned[q]
    BY <1>2, <1>3
<1>5. /\ returned'[r] # <<>>
      /\ returned'[r][Len(returned'[r])] = entry
    BY <1>4
<1> QED
    BY <1>1, <1>4, <1>5 DEF Unfailed, LastStatus

\* Failures last, and a rank that has failed stays out of calls.
LEMMA RunUnfailed ==
    ASSUME TypeInv, \A q \in Ranks : FailedStaysOut(q), ContinueAfterError = FALSE,
           NEW r \in Ranks, RunRank(r)
    PROVE  \A q \in Ranks : (Unfailed(q)' => Unfailed(q)) /\ FailedStaysOut(q)'
<1> DEFINE Fails == \E status \in Statuses \ {PG_SUCCESS} : Return(r, status)
           Goes  == /\ UNCHANGED returned /\ pc[r] # "idle"
                    /\ \A q \in Ranks \ {r} : pc'[q] = pc[q]
<1>1. pc \in [Ranks -> Locations]
    BY DEF TypeInv, TypeOK, TypeOKProgram
<1>2. ASSUME Fails
      PROVE  \A q \in Ranks : (Unfailed(q)' => Unfailed(q)) /\ FailedStaysOut(q)'
    <2>1. PICK status \in Statuses : status # PG_SUCCESS /\ Return(r, status)
        BY <1>2
    <2>2. ~Unfailed(r)' /\ \A q \in Ranks \ {r} : Unfailed(q)' = Unfailed(q)
        BY <2>1, ReturnFails
    <2>3. pc'[r] = "idle" /\ \A q \in Ranks \ {r} : pc'[q] = pc[q]
        BY <1>1, <2>1 DEF Return, Goto
    <2> QED
        BY <2>2, <2>3 DEF FailedStaysOut
<1>3. ASSUME Goes
      PROVE  \A q \in Ranks : (Unfailed(q)' => Unfailed(q)) /\ FailedStaysOut(q)'
    BY <1>3 DEF FailedStaysOut, Unfailed, LastStatus
<1>4. ASSUME BeginCall(r)
      PROVE  \A q \in Ranks : (Unfailed(q)' => Unfailed(q)) /\ FailedStaysOut(q)'
    <2>1. UNCHANGED returned /\ \A q \in Ranks \ {r} : pc'[q] = pc[q]
        BY <1>1, <1>4 DEF BeginCall, Goto
    <2>2. Unfailed(r)
        BY <1>4 DEF BeginCall, MayCall, Unfailed
    <2> QED
        BY <2>1, <2>2 DEF FailedStaysOut, Unfailed, LastStatus
<1>5. ASSUME ReturnSuccess(r)
      PROVE  \A q \in Ranks : (Unfailed(q)' => Unfailed(q)) /\ FailedStaysOut(q)'
    <2>1. pc[r] # "idle" /\ pc'[r] = "idle" /\ \A q \in Ranks \ {r} : pc'[q] = pc[q]
        BY <1>1, <1>5 DEF ReturnSuccess, Return, Goto
    <2>2. \A q \in Ranks \ {r} : returned'[q] = returned[q]
        BY <1>5 DEF ReturnSuccess, Return, TypeInv, TypeOK, TypeOKProgram
    <2> QED
        BY <2>1, <2>2 DEF FailedStaysOut, Unfailed, LastStatus
<1>6. \/ Fails \/ Goes \/ BeginCall(r) \/ ReturnSuccess(r)
    <2>1. {PG_ERR_INVALID_ARGUMENT, PG_ERR_TRANSPORT, PG_ERR_UNSUPPORTED_DATATYPE,
           PG_ERR_UNSUPPORTED_OPERATION, PG_ERR_TAG_RANGE} \subseteq Statuses \ {PG_SUCCESS}
        BY DEF Statuses, PG_SUCCESS, PG_ERR_INVALID_ARGUMENT, PG_ERR_TRANSPORT,
               PG_ERR_UNSUPPORTED_DATATYPE, PG_ERR_UNSUPPORTED_OPERATION, PG_ERR_TAG_RANGE
    <2>2. CASE Loop(r)
        <3>1. UNCHANGED returned /\ pc[r] # "idle"
            BY <2>2 DEF Loop, BeginBatch, NextStep, BeginAllGather, EndPostRecv,
                        EndPostSend, EndWaitRecv, EndBatch
        <3>2. \A q \in Ranks \ {r} : pc'[q] = pc[q]
            BY <1>1, <2>2 DEF Goto, Loop, BeginBatch, NextStep, BeginAllGather, EndPostRecv,
                        EndPostSend, EndWaitRecv, EndBatch
        <3> QED
            BY <3>1, <3>2
    <2>3. CASE RefuseCall(r) \/ TagOutOfRange(r)
        BY <2>1, <2>3 DEF RefuseCall, TagOutOfRange, ReturnError
    <2>4. CASE PostRecv(r) \/ PostSend(r)
        BY <2>1, <2>4 DEF PostRecv, PostSend, ReturnError, RecvPosted, SendPosted,
                          RecvToPost, SendToPost
    <2>5. CASE Poll(r)
        BY <2>5 DEF Poll, Awaited, program_vars
    <2>6. CASE PollFails(r)
        BY <2>1, <2>6 DEF PollFails, ReturnError
    <2>7. CASE Wait(r)
        BY <2>1, <2>7 DEF Wait, RecvWaited, SendWaited, OperationUnsupported, ReturnError
    <2> QED
        BY <2>2, <2>3, <2>4, <2>5, <2>6, <2>7 DEF RunRank, Proceed, Loop
<1> HIDE DEF Fails, Goes
<1> QED
    BY <1>2, <1>3, <1>4, <1>5, <1>6

\* Posting a receive touches the link that ends at r.
LEMMA PostReceiveLinks ==
    ASSUME LinkInv, NEW r \in Ranks, NEW region \in Regions, NEW bytes \in Nat,
           NEW tag \in Nat, NEW mode,
           post_receive_previous(r, region, bytes, tag, mode),
           \A q \in Ranks : Unfailed(q)' => Unfailed(q)
    PROVE  \A s \in Ranks : LinkOK(s)'
<1> DEFINE state == NewRequest(r, "recv", tag, bytes, mode)
           recv == RecvWr(state, bytes, region)
           descriptor == ControlMessage(tag, bytes, state.mode, region)
<1> USE DEF LinkInv, TypeInv, TypeOK
<1>1. state \in RequestStates /\ state.kind = "recv" /\ state.tag = tag
    BY NewRequestType DEF post_receive_previous, NewRequest, RequestState
<1>2. recv \in RecvWrs
    BY <1>1, EmptyRegion DEF RecvWr, RecvWrs
<1>3. descriptor \in ControlMessages
    BY <1>1 DEF ControlMessage, ControlMessages, RequestStates
<1>4. DescribesRecv(descriptor, recv)
    BY <1>1 DEF DescribesRecv, ControlMessage, RecvWr
<1>5. /\ recv_queue' = [recv_queue EXCEPT ![r] = Append(@, recv)]
      /\ control' = [control EXCEPT ![r] = Append(@, descriptor)]
      /\ UNCHANGED <<send_queue, qp_error>>
    BY DEF post_receive_previous
<1> HIDE DEF state, recv, descriptor
<1>6. ASSUME NEW s \in Ranks PROVE LinkOK(s)'
    <2>1. CASE NextRank(s) = r
        <3>1. /\ send_queue[s] \in Seq(SendWrs) /\ recv_queue[r] \in Seq(RecvWrs)
              /\ control[r] \in Seq(ControlMessages)
            BY DEF TypeOKVerbs
        <3>2. /\ recv_queue'[r] = Append(recv_queue[r], recv)
              /\ control'[r] = Append(control[r], descriptor)
              /\ send_queue'[s] = send_queue[s] /\ qp_error'[s] = qp_error[s]
            BY <1>5 DEF TypeOKVerbs
        <3>3. Matched(s) => Matched(s)' /\ (Announced(s) => Announced(s)')
            BY <1>2, <1>3, <1>4, <2>1, <3>1, <3>2, AnnounceRecv DEF Matched, Announced
        <3> QED
            BY <3>2, <3>3 DEF LinkOK
    <2>2. CASE NextRank(s) # r
        <3>1. /\ recv_queue'[NextRank(s)] = recv_queue[NextRank(s)]
              /\ control'[NextRank(s)] = control[NextRank(s)]
            BY <1>5, <2>2, RankFacts DEF TypeOKVerbs
        <3> QED
            BY <1>5, <3>1, LinkStable
    <2> QED
        BY <2>1, <2>2
<1> QED
    BY <1>6

\* Posting a send touches the link that starts at r, which has not failed.
LEMMA PostSendLinks ==
    ASSUME LinkInv, NEW r \in Ranks, NEW region \in Regions, NEW bytes \in Nat,
           NEW tag \in Nat, NEW mode,
           post_send_next(r, region, bytes, tag, mode), Unfailed(r),
           \A q \in Ranks : Unfailed(q)' => Unfailed(q)
    PROVE  \A s \in Ranks : LinkOK(s)'
<1> DEFINE state == NewRequest(r, "send", tag, bytes, mode)
           next == NextRank(r)
           descriptor == Head(control[next])
           send == SendWr(state, bytes, region, descriptor.remote_address)
<1> USE DEF LinkInv, TypeInv, TypeOK
<1>1. /\ state \in RequestStates /\ state.tag = tag
      /\ state.mode = choose_mode(mode, bytes)
    BY NewRequestType DEF post_send_next, NewRequest, RequestState
<1>2. next \in Ranks /\ control[next] \in Seq(ControlMessages) /\ control[next] # <<>>
    BY RankFacts DEF TypeOKVerbs, post_send_next
<1>3. descriptor \in ControlMessages
    BY <1>2
<1>4. send \in SendWrs
    BY <1>1, <1>3 DEF SendWr, SendWrs, ControlMessages, RequestStates
<1>5. descriptor.tag = tag /\ descriptor.bytes = bytes /\ descriptor.mode = state.mode
    BY DEF post_send_next, DescriptorMatches
<1>6. \A recv \in RecvWrs : DescribesRecv(descriptor, recv) => SendMatches(send, recv)
    BY <1>1, <1>5 DEF DescribesRecv, SendMatches, SendWr
<1>7. /\ send_queue' = [send_queue EXCEPT ![r] = Append(@, send)]
      /\ control' = [control EXCEPT ![next] = Tail(@)]
      /\ UNCHANGED <<recv_queue, qp_error>>
    BY DEF post_send_next
<1> HIDE DEF state, send
<1>8. ASSUME NEW s \in Ranks, s = r PROVE LinkOK(s)'
    <2>1. send_queue[r] \in Seq(SendWrs) /\ recv_queue[next] \in Seq(RecvWrs)
        BY <1>2 DEF TypeOKVerbs
    <2>2. /\ send_queue'[r] = Append(send_queue[r], send)
          /\ control'[next] = Tail(control[next])
          /\ recv_queue'[next] = recv_queue[next] /\ qp_error'[r] = qp_error[r]
        BY <1>2, <1>7 DEF TypeOKVerbs
    <2>3. Matched(r) /\ Announced(r) => Matched(r)' /\ Announced(r)'
        BY <1>2, <1>4, <1>6, <2>1, <2>2, SendAnnounced DEF Matched, Announced
    <2> QED
        BY <1>8, <2>2, <2>3 DEF LinkOK
<1>9. ASSUME NEW s \in Ranks, s # r PROVE LinkOK(s)'
    <2>1. NextRank(s) # next /\ NextRank(s) \in Ranks
        BY <1>9, NextRankInjective, RankFacts
    <2>2. /\ send_queue'[s] = send_queue[s]
          /\ control'[NextRank(s)] = control[NextRank(s)]
        BY <1>7, <1>9, <2>1 DEF TypeOKVerbs
    <2> QED
        BY <1>7, <2>2, LinkStable
<1> QED
    BY <1>8, <1>9

\* A send that throws has lost its descriptor: the link is no more announced,
\* but its sender has failed.
LEMMA PostSendThrowsLinks ==
    ASSUME LinkInv, NEW r \in Ranks, NEW bytes, NEW tag, NEW mode,
           post_send_throws(r, bytes, tag, mode), ~Unfailed(r)',
           \A q \in Ranks : Unfailed(q)' => Unfailed(q)
    PROVE  \A s \in Ranks : LinkOK(s)'
<1> DEFINE next == NextRank(r)
<1> USE DEF LinkInv, TypeInv, TypeOK
<1>1. UNCHANGED <<send_queue, recv_queue, qp_error>>
    BY DEF post_send_throws
<1>2. control' = [control EXCEPT ![next] = Tail(@)]
    BY DEF post_send_throws
<1>3. ASSUME NEW s \in Ranks, s = r PROVE LinkOK(s)'
    BY <1>1, <1>3 DEF LinkOK, Matched
<1>4. ASSUME NEW s \in Ranks, s # r PROVE LinkOK(s)'
    <2>1. NextRank(s) # next /\ NextRank(s) \in Ranks
        BY <1>4, NextRankInjective, RankFacts
    <2>2. control'[NextRank(s)] = control[NextRank(s)]
        BY <1>2, <2>1 DEF TypeOKVerbs
    <2> QED
        BY <1>1, <2>2, LinkStable
<1> QED
    BY <1>3, <1>4

LEMMA DeliverLinks ==
    ASSUME LinkInv, NEW r \in Ranks, Deliver(r),
           \A q \in Ranks : Unfailed(q)' => Unfailed(q)
    PROVE  \A s \in Ranks : LinkOK(s)'
<1> DEFINE d == NextRank(r)
<1> USE DEF LinkInv, TypeInv, TypeOK
<1>1. /\ d \in Ranks /\ send_queue[r] \in Seq(SendWrs) /\ send_queue[r] # <<>>
      /\ recv_queue[d] \in Seq(RecvWrs) /\ recv_queue[d] # <<>>
      /\ control[d] \in Seq(ControlMessages)
    BY RankFacts DEF TypeOKVerbs, Deliver
<1>2. /\ send_queue' = [send_queue EXCEPT ![r] = Tail(@)]
      /\ recv_queue' = [recv_queue EXCEPT ![d] = Tail(@)]
      /\ UNCHANGED <<control, qp_error>>
    BY DEF Deliver
<1>3. ASSUME NEW s \in Ranks, s = r PROVE LinkOK(s)'
    <2>1. /\ send_queue'[r] = Tail(send_queue[r])
          /\ recv_queue'[d] = Tail(recv_queue[d])
        BY <1>1, <1>2 DEF TypeOKVerbs
    <2>2. Matched(r) => Matched(r)' /\ (Announced(r) => Announced(r)')
        BY <1>1, <1>2, <2>1, TakeOldest DEF Matched, Announced
    <2> QED
        BY <1>2, <1>3, <2>2 DEF LinkOK
<1>4. ASSUME NEW s \in Ranks, s # r PROVE LinkOK(s)'
    <2>1. NextRank(s) # d /\ NextRank(s) \in Ranks
        BY <1>4, NextRankInjective, RankFacts
    <2>2. /\ send_queue'[s] = send_queue[s]
          /\ recv_queue'[NextRank(s)] = recv_queue[NextRank(s)]
        BY <1>2, <1>4, <2>1 DEF TypeOKVerbs
    <2> QED
        BY <1>2, <2>2, LinkStable
<1> QED
    BY <1>3, <1>4

\* A broken link promises nothing, and flushing it touches no other.
LEMMA FaultLinks ==
    ASSUME LinkInv, NEW r \in Ranks, BreakLink(r) \/ FlushSend(r),
           \A q \in Ranks : Unfailed(q)' => Unfailed(q)
    PROVE  \A s \in Ranks : LinkOK(s)'
<1> USE DEF LinkInv, TypeInv, TypeOK
<1>1. qp_error'[r] = TRUE
    BY DEF BreakLink, FlushSend, TypeOKVerbs
<1>2. ASSUME NEW s \in Ranks, s # r PROVE LinkOK(s)'
    <2>1. send_queue'[s] = send_queue[s] /\ qp_error'[s] = qp_error[s]
        BY <1>2 DEF BreakLink, FlushSend, TypeOKVerbs
    <2>2. UNCHANGED <<recv_queue, control>>
        BY DEF BreakLink, FlushSend
    <2> QED
        BY <2>1, <2>2, LinkStable
<1> QED
    BY <1>1, <1>2 DEF LinkOK

LEMMA QueuesUnchanged ==
    ASSUME LinkInv, UNCHANGED <<send_queue, recv_queue, control, qp_error>>,
           \A q \in Ranks : Unfailed(q)' => Unfailed(q)
    PROVE  \A s \in Ranks : LinkOK(s)'
BY LinkStable DEF LinkInv

LEMMA RunLinks ==
    ASSUME LinkInv, ContinueAfterError = FALSE, NEW r \in Ranks, RunRank(r)
    PROVE  \A s \in Ranks : LinkOK(s)'
<1>1. \A q \in Ranks : Unfailed(q)' => Unfailed(q)
    BY RunUnfailed DEF LinkInv
<1>2. /\ TypeInv /\ ProgramOK /\ PG_ERR_TRANSPORT \in Statuses
      /\ PG_ERR_TRANSPORT # PG_SUCCESS
    BY DEF LinkInv, TypeInv, TypeOK, ProgramOK, Statuses, PG_ERR_TRANSPORT, PG_SUCCESS
<1>3. CASE PostRecv(r)
    <2>1. RecvRegion(r) \in Regions /\ RecvBytes(r) \in Nat /\ Tag(r) \in Nat
        BY <1>2, <1>3, PostedRegions, TagTypes DEF PostRecv
    <2>2. CASE post_receive_throws(r)
        BY <1>1, <2>2, QueuesUnchanged DEF post_receive_throws
    <2> QED
        BY <1>1, <1>3, <2>1, <2>2, PostReceiveLinks DEF PostRecv
<1>4. CASE PostSend(r)
    <2>1. SendRegion(r) \in Regions /\ SendBytes(r) \in Nat /\ Tag(r) \in Nat
        BY <1>2, <1>4, PostedRegions, TagTypes DEF PostSend
    <2>2. Unfailed(r)
        BY <1>4 DEF PostSend, SendToPost, LinkInv, FailedStaysOut
    <2>3. CASE /\ post_send_throws(r, SendBytes(r), Tag(r), transfer_mode(r))
               /\ ReturnError(r, PG_ERR_TRANSPORT)
        <3>1. ~Unfailed(r)'
            BY <1>2, <2>3, ReturnFails DEF ReturnError
        <3> QED
            BY <1>1, <2>3, <3>1, PostSendThrowsLinks
    <2> QED
        BY <1>1, <1>4, <2>1, <2>2, <2>3, PostSendLinks DEF PostSend
<1>5. CASE Proceed(r) /\ UNCHANGED verbs_vars
    BY <1>1, <1>5, QueuesUnchanged DEF verbs_vars
<1>6. CASE Poll(r)
    BY <1>1, <1>6, QueuesUnchanged DEF Poll, handle_completion
<1>7. CASE Wait(r)
    BY <1>1, <1>7, QueuesUnchanged DEF Wait, consume_request
<1>8. CASE PollFails(r)
    BY <1>1, <1>8, QueuesUnchanged DEF PollFails, verbs_vars
<1> QED
    BY <1>3, <1>4, <1>5, <1>6, <1>7, <1>8 DEF RunRank

-----------------------------------------------------------------------------
(* The theorem.                                                              *)

LEMMA InitLinks == Init => LinkInv
<1> SUFFICES ASSUME Init PROVE LinkInv
    OBVIOUS
<1>1. ASSUME NEW r \in Ranks PROVE LinkOK(r) /\ FailedStaysOut(r)
    <2>1. /\ send_queue[r] = <<>> /\ recv_queue[NextRank(r)] = <<>>
          /\ control[NextRank(r)] = <<>>
        BY RankFacts DEF Init, InitVerbs
    <2>2. pc[r] = "idle"
        BY DEF Init, InitProgram
    <2> QED
        BY <2>1, <2>2 DEF LinkOK, Matched, Announced, SendsMatched, RecvsAnnounced,
                          FailedStaysOut
<1> QED
    BY <1>1, InitTypes DEF LinkInv

LEMMA NextLinks ==
    ASSUME ContinueAfterError = FALSE
    PROVE  LinkInv /\ [Next]_vars => LinkInv'
<1> SUFFICES ASSUME LinkInv, [Next]_vars PROVE LinkInv'
    OBVIOUS
<1>1. TypeInv'
    BY NextTypes DEF LinkInv
<1>2. ASSUME UNCHANGED program_vars
      PROVE  /\ \A q \in Ranks : Unfailed(q)' => Unfailed(q)
             /\ \A q \in Ranks : FailedStaysOut(q)'
    BY <1>2 DEF program_vars, LinkInv, FailedStaysOut, Unfailed, LastStatus
<1>3. ASSUME NEW r \in Ranks, RunRank(r) PROVE LinkInv'
    BY <1>1, <1>3, RunUnfailed, RunLinks DEF LinkInv
<1>4. ASSUME NEW s \in Ranks, Fabric(s) PROVE LinkInv'
    <2>1. UNCHANGED program_vars
        BY <1>4 DEF Fabric
    <2>2. CASE Acknowledge(s)
        BY <1>1, <1>2, <2>1, <2>2, QueuesUnchanged DEF Acknowledge, LinkInv
    <2> QED
        BY <1>1, <1>2, <1>4, <2>1, <2>2, DeliverLinks, FaultLinks DEF Fabric, LinkInv
<1>5. CASE UNCHANGED vars
    BY <1>1, <1>2, <1>5, QueuesUnchanged DEF vars, verbs_vars, LinkInv
<1> QED
    BY <1>3, <1>4, <1>5 DEF Next, Finished

\* Arrival order agrees with the tags on every link that works, whatever the
\* number of ranks, the pieces, the calls and the faults, as long as no rank
\* calls again after a failed call: no message meets an empty receive queue or
\* another piece's buffer (verbs_transport.cpp, post_receive_previous and
\* post_send_next).
THEOREM LinksInOrder ==
    ASSUME ContinueAfterError = FALSE
    PROVE  Spec => []LinkInOrder
<1>1. LinkInv => LinkInOrder
    BY DEF LinkInv, LinkOK, Matched, Announced, SendsMatched, RecvsAnnounced, LinkInOrder
<1> QED
    BY <1>1, InitLinks, NextLinks, PTL DEF Spec

-----------------------------------------------------------------------------
(* Requests.                                                                 *)

\* The requests the entries of a queue name, in the field that names them.
Named(queue, field) == {queue[k][field] : k \in 1..Len(queue)}

NoneTwice(queue, field) ==
    \A j, k \in 1..Len(queue) : queue[j][field] = queue[k][field] => j = k

Receiving(r)    == Named(recv_queue[r], "wr_id")
Sending(r)      == Named(send_queue[r], "wr_id")
Acknowledged(r) == Named(unacknowledged[r], "wr_id")
Completing(r)   == Named(cq[r], "wr_id")

\* A request has an id of its own, and until it is completed one work request or
\* one completion that names it, never two.
Tracked(r) ==
    /\ \A q \in pending_requests[r] : q.id < next_request_id[r]
    /\ completed[r] \subseteq pending_requests[r]
    /\ Receiving(r) \cup Sending(r) \cup Acknowledged(r) \cup Completing(r)
         \subseteq pending_requests[r] \ completed[r]
    /\ \A q \in Receiving(r) : q.kind = "recv"
    /\ \A q \in Sending(r) \cup Acknowledged(r) : q.kind = "send"
    /\ Sending(r) \cap Acknowledged(r) = {}
    /\ Completing(r) \cap (Receiving(r) \cup Sending(r) \cup Acknowledged(r)) = {}
    /\ NoneTwice(recv_queue[r], "wr_id") /\ NoneTwice(send_queue[r], "wr_id")
    /\ NoneTwice(unacknowledged[r], "wr_id") /\ NoneTwice(cq[r], "wr_id")

TrackedInv == TypeInv /\ \A r \in Ranks : Tracked(r)

-----------------------------------------------------------------------------
(* Queues of entries that name requests.                                     *)

LEMMA NamedAppend ==
    ASSUME NEW S, NEW queue \in Seq(S), NEW entry \in S, NEW field
    PROVE  /\ Named(Append(queue, entry), field) = Named(queue, field) \cup {entry[field]}
           /\ NoneTwice(queue, field) /\ entry[field] \notin Named(queue, field)
                => NoneTwice(Append(queue, entry), field)
<1> DEFINE longer == Append(queue, entry)
<1>1. /\ Len(longer) = Len(queue) + 1 /\ Len(queue) \in Nat
      /\ longer[Len(queue) + 1] = entry
      /\ \A k \in 1..Len(queue) : longer[k] = queue[k]
    OBVIOUS
<1> HIDE DEF longer
<1>2. Named(longer, field) \subseteq Named(queue, field) \cup {entry[field]}
    <2>1. ASSUME NEW k \in 1..Len(longer)
          PROVE  longer[k][field] \in Named(queue, field) \cup {entry[field]}
        <3>1. k = Len(queue) + 1 \/ k \in 1..Len(queue)
            BY <1>1
        <3> QED
            BY <1>1, <3>1 DEF Named
    <2> QED
        BY <2>1 DEF Named
<1>3. Named(queue, field) \cup {entry[field]} \subseteq Named(longer, field)
    <2>1. 1..Len(queue) \subseteq 1..Len(longer) /\ Len(queue) + 1 \in 1..Len(longer)
        BY <1>1
    <2> QED
        BY <1>1, <2>1 DEF Named
<1>4. ASSUME NoneTwice(queue, field), entry[field] \notin Named(queue, field)
      PROVE  NoneTwice(longer, field)
    <2>1. ASSUME NEW k \in 1..Len(queue) PROVE queue[k][field] # entry[field]
        BY <1>4 DEF Named
    <2>2. ASSUME NEW j \in 1..Len(longer), NEW k \in 1..Len(longer),
                 longer[j][field] = longer[k][field]
          PROVE  j = k
        <3>1. /\ j = Len(queue) + 1 \/ j \in 1..Len(queue)
              /\ k = Len(queue) + 1 \/ k \in 1..Len(queue)
            BY <1>1
        <3> QED
            BY <1>1, <1>4, <2>1, <2>2, <3>1 DEF NoneTwice
    <2> QED
        BY <2>2 DEF NoneTwice
<1> QED
    BY <1>2, <1>3, <1>4 DEF longer

LEMMA NamedTail ==
    ASSUME NEW S, NEW queue \in Seq(S), queue # <<>>, NEW field
    PROVE  /\ Head(queue)[field] \in Named(queue, field)
           /\ Named(queue, field) = Named(Tail(queue), field) \cup {Head(queue)[field]}
           /\ NoneTwice(queue, field) =>
                /\ NoneTwice(Tail(queue), field)
                /\ Head(queue)[field] \notin Named(Tail(queue), field)
<1> DEFINE rest == Tail(queue)
<1>1. /\ Len(queue) = Len(rest) + 1 /\ Len(rest) \in Nat
      /\ Head(queue) = queue[1]
      /\ \A k \in 1..Len(rest) : rest[k] = queue[k + 1]
    OBVIOUS
<1> HIDE DEF rest
<1>2. 1 \in 1..Len(queue) /\ \A k \in 1..Len(rest) : k + 1 \in 1..Len(queue)
    BY <1>1
<1>3. Named(rest, field) \cup {Head(queue)[field]} \subseteq Named(queue, field)
    BY <1>1, <1>2 DEF Named
<1>4. ASSUME NEW k \in 1..Len(queue)
      PROVE  queue[k][field] \in Named(rest, field) \cup {Head(queue)[field]}
    <2>1. k = 1 \/ (k - 1 \in 1..Len(rest) /\ (k - 1) + 1 = k)
        BY <1>1
    <2>2. CASE k # 1
        <3>1. rest[k - 1] = queue[k] /\ k - 1 \in 1..Len(rest)
            BY <1>1, <2>1, <2>2
        <3> QED
            BY <3>1 DEF Named
    <2> QED
        BY <1>1, <2>2
<1>5. ASSUME NoneTwice(queue, field)
      PROVE  NoneTwice(rest, field) /\ Head(queue)[field] \notin Named(rest, field)
    <2>1. ASSUME NEW j \in 1..Len(rest), NEW k \in 1..Len(rest),
                 rest[j][field] = rest[k][field]
          PROVE  j = k
        <3>1. j + 1 = k + 1
            <4>1. j + 1 \in 1..Len(queue) /\ k + 1 \in 1..Len(queue)
                BY <1>1
            <4>2. queue[j + 1][field] = queue[k + 1][field]
                BY <1>1, <2>1
            <4> QED
                BY <1>5, <4>1, <4>2, Zenon DEF NoneTwice
        <3> QED
            BY <3>1
    <2>2. ASSUME NEW k \in 1..Len(rest) PROVE rest[k][field] # queue[1][field]
        <3>1. k + 1 # 1
            OBVIOUS
        <3> QED
            BY <1>1, <1>2, <1>5, <3>1 DEF NoneTwice
    <2> QED
        BY <1>1, <2>1, <2>2 DEF NoneTwice, Named
<1>6. Named(queue, field) \subseteq Named(rest, field) \cup {Head(queue)[field]}
    BY <1>4 DEF Named
<1> QED
    BY <1>1, <1>2, <1>3, <1>5, <1>6 DEF rest, Named

LEMMA HeadOfConcat ==
    ASSUME NEW S, NEW s \in Seq(S), NEW t \in Seq(S), s # <<>>
    PROVE  Head(s \o t) = Head(s)
<1> DEFINE all == s \o t
<1>1. Len(s) \in Nat /\ Len(s) >= 1 /\ Len(t) \in Nat
    OBVIOUS
<1>2. /\ all \in Seq(S) /\ Len(all) = Len(s) + Len(t)
      /\ \A i \in 1..Len(s) + Len(t) : all[i] = IF i <= Len(s) THEN s[i] ELSE t[i - Len(s)]
    BY ConcatProperties, Zenon
<1> HIDE DEF all
<1>3. all[1] = s[1] /\ all # <<>>
    BY <1>1, <1>2
<1>4. Head(all) = s[1] /\ Head(s) = s[1]
    BY <1>1, <1>2, <1>3
<1> QED
    BY <1>4 DEF all

LEMMA NamedEmpty ==
    ASSUME NEW field
    PROVE  Named(<<>>, field) = {} /\ NoneTwice(<<>>, field)
BY DEF Named, NoneTwice

LEMMA NamedNothing ==
    ASSUME NEW S, NEW queue \in Seq(S), NEW field, Named(queue, field) = {}
    PROVE  queue = <<>>
<1>1. Len(queue) \in Nat /\ (queue # <<>> => 1 \in 1..Len(queue))
    OBVIOUS
<1> QED
    BY <1>1 DEF Named

-----------------------------------------------------------------------------
(* Every operation of the transport keeps its requests tracked.              *)

\* What Tracked(q) reads of the state.
SameRequests(q) ==
    /\ next_request_id'[q] = next_request_id[q]
    /\ pending_requests'[q] = pending_requests[q] /\ completed'[q] = completed[q]
    /\ recv_queue'[q] = recv_queue[q] /\ send_queue'[q] = send_queue[q]
    /\ unacknowledged'[q] = unacknowledged[q] /\ cq'[q] = cq[q]

LEMMA TrackedStable ==
    ASSUME NEW q, Tracked(q), SameRequests(q)
    PROVE  Tracked(q)'
BY DEF Tracked, SameRequests, Receiving, Sending, Acknowledged, Completing

\* A new receive, posted; whether its descriptor was written does not matter.
LEMMA NewRecvTracked ==
    ASSUME TypeOKVerbs, NEW r \in Ranks, \A q \in Ranks : Tracked(q),
           NEW recv \in RecvWrs, recv.wr_id.kind = "recv",
           recv.wr_id.id = next_request_id[r], TakeId(r),
           pending_requests' = [pending_requests EXCEPT ![r] = @ \cup {recv.wr_id}],
           recv_queue' = [recv_queue EXCEPT ![r] = Append(@, recv)],
           UNCHANGED <<completed, send_queue, unacknowledged, cq>>
    PROVE  \A q \in Ranks : Tracked(q)'
<1> DEFINE state == recv.wr_id
<1>1. /\ recv_queue[r] \in Seq(RecvWrs) /\ next_request_id[r] \in Nat
      /\ pending_requests[r] \in SUBSET RequestStates
      /\ recv_queue'[r] = Append(recv_queue[r], recv)
      /\ pending_requests'[r] = pending_requests[r] \cup {state}
      /\ next_request_id'[r] = next_request_id[r] + 1
      /\ \A q \in Ranks \ {r} : SameRequests(q)
    BY DEF TypeOKVerbs, TakeId, SameRequests
<1>2. /\ Sending(r)' = Sending(r) /\ Acknowledged(r)' = Acknowledged(r)
      /\ Completing(r)' = Completing(r) /\ completed'[r] = completed[r]
    BY DEF Sending, Acknowledged, Completing
<1>3. state \notin pending_requests[r]
    BY <1>1 DEF Tracked
<1>4. /\ Receiving(r)' = Receiving(r) \cup {state}
      /\ NoneTwice(recv_queue[r], "wr_id") /\ state \notin Receiving(r)
           => NoneTwice(recv_queue'[r], "wr_id")
    BY <1>1, NamedAppend DEF Receiving
<1>5. \A q \in pending_requests'[r] : q.id < next_request_id'[r]
    <2>1. ASSUME NEW q \in pending_requests[r] PROVE q.id < next_request_id[r] + 1
        <3>1. q.id \in Nat /\ q.id < next_request_id[r]
            BY <1>1 DEF Tracked, RequestStates
        <3> QED
            BY <1>1, <3>1
    <2> QED
        BY <1>1, <2>1
<1> HIDE DEF state
<1>6. recv.wr_id = state /\ state.kind = "recv"
    BY DEF state
<1>7. Tracked(r)'
    <2>1. state \notin Receiving(r) \cup Sending(r) \cup Acknowledged(r) \cup Completing(r)
        BY <1>3 DEF Tracked
    <2>2. NoneTwice(recv_queue'[r], "wr_id")
        BY <1>4, <2>1 DEF Tracked
    <2>3. completed[r] \subseteq pending_requests[r] /\ state \notin completed[r]
        BY <1>3 DEF Tracked
    <2> QED
        BY <1>1, <1>2, <1>4, <1>5, <1>6, <2>1, <2>2, <2>3 DEF Tracked
<1> QED
    BY <1>1, <1>7, TrackedStable

\* A new send, posted.
LEMMA NewSendTracked ==
    ASSUME TypeOKVerbs, NEW r \in Ranks, \A q \in Ranks : Tracked(q),
           NEW send \in SendWrs, send.wr_id.kind = "send",
           send.wr_id.id = next_request_id[r], TakeId(r),
           pending_requests' = [pending_requests EXCEPT ![r] = @ \cup {send.wr_id}],
           send_queue' = [send_queue EXCEPT ![r] = Append(@, send)],
           UNCHANGED <<completed, recv_queue, unacknowledged, cq>>
    PROVE  \A q \in Ranks : Tracked(q)'
<1> DEFINE state == send.wr_id
<1>1. /\ send_queue[r] \in Seq(SendWrs) /\ next_request_id[r] \in Nat
      /\ pending_requests[r] \in SUBSET RequestStates
      /\ send_queue'[r] = Append(send_queue[r], send)
      /\ pending_requests'[r] = pending_requests[r] \cup {state}
      /\ next_request_id'[r] = next_request_id[r] + 1
      /\ \A q \in Ranks \ {r} : SameRequests(q)
    BY DEF TypeOKVerbs, TakeId, SameRequests
<1>2. /\ Receiving(r)' = Receiving(r) /\ Acknowledged(r)' = Acknowledged(r)
      /\ Completing(r)' = Completing(r) /\ completed'[r] = completed[r]
    BY DEF Receiving, Acknowledged, Completing
<1>3. state \notin pending_requests[r]
    BY <1>1 DEF Tracked
<1>4. /\ Sending(r)' = Sending(r) \cup {state}
      /\ NoneTwice(send_queue[r], "wr_id") /\ state \notin Sending(r)
           => NoneTwice(send_queue'[r], "wr_id")
    BY <1>1, NamedAppend DEF Sending
<1>5. \A q \in pending_requests'[r] : q.id < next_request_id'[r]
    <2>1. ASSUME NEW q \in pending_requests[r] PROVE q.id < next_request_id[r] + 1
        <3>1. q.id \in Nat /\ q.id < next_request_id[r]
            BY <1>1 DEF Tracked, RequestStates
        <3> QED
            BY <1>1, <3>1
    <2> QED
        BY <1>1, <2>1
<1> HIDE DEF state
<1>6. send.wr_id = state /\ state.kind = "send"
    BY DEF state
<1>7. Tracked(r)'
    <2>1. state \notin Receiving(r) \cup Sending(r) \cup Acknowledged(r) \cup Completing(r)
        BY <1>3 DEF Tracked
    <2>2. NoneTwice(send_queue'[r], "wr_id")
        BY <1>4, <2>1 DEF Tracked
    <2>3. completed[r] \subseteq pending_requests[r] /\ state \notin completed[r]
        BY <1>3 DEF Tracked
    <2> QED
        BY <1>1, <1>2, <1>4, <1>5, <1>6, <2>1, <2>2, <2>3 DEF Tracked
<1> QED
    BY <1>1, <1>7, TrackedStable

\* A post that throws keeps nothing, and may have used an id.
LEMMA ThrowsTracked ==
    ASSUME TypeOKVerbs, NEW r \in Ranks, \A q \in Ranks : Tracked(q),
           TakeId(r) \/ UNCHANGED next_request_id,
           UNCHANGED <<pending_requests, completed, recv_queue, send_queue,
                       unacknowledged, cq>>
    PROVE  \A q \in Ranks : Tracked(q)'
<1>1. ASSUME NEW q \in Ranks PROVE Tracked(q)'
    <2>1. /\ next_request_id[q] \in Nat /\ pending_requests[q] \in SUBSET RequestStates
          /\ next_request_id'[q] \in Nat /\ next_request_id[q] <= next_request_id'[q]
        <3>1. \/ next_request_id'[q] = next_request_id[q]
              \/ next_request_id'[q] = next_request_id[q] + 1
            BY DEF TypeOKVerbs, TakeId
        <3>2. next_request_id[q] \in Nat /\ pending_requests[q] \in SUBSET RequestStates
            BY DEF TypeOKVerbs
        <3> QED
            BY <3>1, <3>2
    <2>2. ASSUME NEW p \in pending_requests[q] PROVE p.id < next_request_id'[q]
        <3>1. p.id \in Nat /\ p.id < next_request_id[q]
            BY <2>1 DEF Tracked, RequestStates
        <3> QED
            BY <2>1, <3>1
    <2> QED
        BY <2>2 DEF Tracked, Receiving, Sending, Acknowledged, Completing
<1> QED
    BY <1>1

\* The completion polled from the queue completes the request it names.
LEMMA HandleCompletionTracked ==
    ASSUME TypeOKVerbs, NEW r \in Ranks, \A q \in Ranks : Tracked(q),
           handle_completion(r)
    PROVE  \A q \in Ranks : Tracked(q)'
<1> DEFINE state == Head(cq[r]).wr_id
<1>1. /\ cq[r] \in Seq(Completions) /\ cq[r] # <<>>
      /\ cq'[r] = Tail(cq[r])
      /\ completed'[r] = completed[r] \cup {state}
      /\ next_request_id'[r] = next_request_id[r]
      /\ pending_requests'[r] = pending_requests[r]
      /\ \A q \in Ranks \ {r} : SameRequests(q)
    BY DEF TypeOKVerbs, handle_completion, SameRequests
<1>2. UNCHANGED <<recv_queue, send_queue, unacknowledged>>
    BY DEF handle_completion
<1>3. /\ Receiving(r)' = Receiving(r) /\ Sending(r)' = Sending(r)
      /\ Acknowledged(r)' = Acknowledged(r)
    BY <1>2 DEF Receiving, Sending, Acknowledged
<1>4. /\ Completing(r) = Completing(r)' \cup {state}
      /\ NoneTwice(cq[r], "wr_id") =>
            NoneTwice(cq'[r], "wr_id") /\ state \notin Completing(r)'
    BY <1>1, NamedTail DEF Completing
<1> HIDE DEF state
<1>5. Tracked(r)'
    BY <1>1, <1>2, <1>3, <1>4 DEF Tracked
<1> QED
    BY <1>1, <1>5, TrackedStable

\* A completed request is in no queue, so it can be given up.
LEMMA ConsumeTracked ==
    ASSUME TypeOKVerbs, NEW r \in Ranks, \A q \in Ranks : Tracked(q), NEW state,
           consume_request(r, state)
    PROVE  \A q \in Ranks : Tracked(q)'
<1>1. /\ state \in completed[r] /\ next_request_id'[r] = next_request_id[r]
      /\ completed'[r] = completed[r] \ {state}
      /\ pending_requests'[r] = pending_requests[r] \ {state}
      /\ \A q \in Ranks \ {r} : SameRequests(q)
    BY DEF TypeOKVerbs, consume_request, SameRequests
<1>2. UNCHANGED <<recv_queue, send_queue, unacknowledged, cq>>
    BY DEF consume_request
<1>3. /\ Receiving(r)' = Receiving(r) /\ Sending(r)' = Sending(r)
      /\ Acknowledged(r)' = Acknowledged(r) /\ Completing(r)' = Completing(r)
    BY <1>2 DEF Receiving, Sending, Acknowledged, Completing
<1>4. Tracked(r)'
    BY <1>1, <1>2, <1>3 DEF Tracked
<1> QED
    BY <1>1, <1>4, TrackedStable

-----------------------------------------------------------------------------
(* So does the fabric.                                                       *)

\* A delivery is two things: a send waits for its acknowledgement at one rank,
\* and a receive completes at the next.
LEMMA DeliverTracked ==
    ASSUME TypeOKVerbs, NEW s \in Ranks, \A q \in Ranks : Tracked(q), Deliver(s)
    PROVE  \A q \in Ranks : Tracked(q)'
<1> DEFINE d == NextRank(s)
           send == Head(send_queue[s])
           recv == Head(recv_queue[d])
           completion == RecvCompletion(recv, send)
<1>1. /\ d \in Ranks /\ send_queue[s] \in Seq(SendWrs) /\ send_queue[s] # <<>>
      /\ recv_queue[d] \in Seq(RecvWrs) /\ recv_queue[d] # <<>>
      /\ unacknowledged[s] \in Seq(SendWrs) /\ cq[d] \in Seq(Completions)
    BY RankFacts DEF TypeOKVerbs, Deliver
<1>2. send \in SendWrs /\ recv \in RecvWrs
    BY <1>1
<1>3. completion \in Completions /\ completion["wr_id"] = recv.wr_id
    BY <1>2, CompletionTypes DEF RecvCompletion, Completion
<1>4. /\ send_queue'     = [send_queue EXCEPT ![s] = Tail(@)]
      /\ recv_queue'     = [recv_queue EXCEPT ![d] = Tail(@)]
      /\ unacknowledged' = [unacknowledged EXCEPT ![s] = Append(@, send)]
      /\ cq' = [cq EXCEPT ![d] = Append(@, completion)]
      /\ UNCHANGED <<next_request_id, pending_requests, completed>>
    BY DEF Deliver
<1> HIDE DEF send, recv, completion
<1>5. /\ send_queue'[s] = Tail(send_queue[s])
      /\ unacknowledged'[s] = Append(unacknowledged[s], send)
      /\ \A q \in Ranks \ {s} : send_queue'[q] = send_queue[q]
                             /\ unacknowledged'[q] = unacknowledged[q]
    BY <1>4 DEF TypeOKVerbs
<1>6. /\ recv_queue'[d] = Tail(recv_queue[d]) /\ cq'[d] = Append(cq[d], completion)
      /\ \A q \in Ranks \ {d} : recv_queue'[q] = recv_queue[q] /\ cq'[q] = cq[q]
    BY <1>1, <1>4 DEF TypeOKVerbs
<1>7. /\ Sending(s) = Sending(s)' \cup {send.wr_id}
      /\ Acknowledged(s)' = Acknowledged(s) \cup {send.wr_id}
      /\ send.wr_id \notin Sending(s)'
      /\ NoneTwice(send_queue'[s], "wr_id") /\ NoneTwice(unacknowledged'[s], "wr_id")
    <2>1. /\ Sending(s) = Sending(s)' \cup {send.wr_id}
          /\ NoneTwice(send_queue[s], "wr_id") =>
                NoneTwice(send_queue'[s], "wr_id") /\ send.wr_id \notin Sending(s)'
        BY <1>1, <1>5, NamedTail DEF Sending, send
    <2>2. /\ Acknowledged(s)' = Acknowledged(s) \cup {send.wr_id}
          /\ NoneTwice(unacknowledged[s], "wr_id") /\ send.wr_id \notin Acknowledged(s)
               => NoneTwice(unacknowledged'[s], "wr_id")
        BY <1>1, <1>2, <1>5, NamedAppend DEF Acknowledged
    <2> QED
        BY <2>1, <2>2 DEF Tracked
<1>8. /\ Receiving(d) = Receiving(d)' \cup {recv.wr_id}
      /\ Completing(d)' = Completing(d) \cup {recv.wr_id}
      /\ recv.wr_id \notin Receiving(d)'
      /\ NoneTwice(recv_queue'[d], "wr_id") /\ NoneTwice(cq'[d], "wr_id")
    <2>1. /\ Receiving(d) = Receiving(d)' \cup {recv.wr_id}
          /\ NoneTwice(recv_queue[d], "wr_id") =>
                NoneTwice(recv_queue'[d], "wr_id") /\ recv.wr_id \notin Receiving(d)'
        BY <1>1, <1>6, NamedTail DEF Receiving, recv
    <2>2. /\ Completing(d)' = Completing(d) \cup {recv.wr_id}
          /\ NoneTwice(cq[d], "wr_id") /\ recv.wr_id \notin Completing(d)
               => NoneTwice(cq'[d], "wr_id")
        BY <1>1, <1>3, <1>6, NamedAppend DEF Completing
    <2> QED
        BY <1>1, <2>1, <2>2 DEF Tracked
<1>9. ASSUME NEW q \in Ranks PROVE Tracked(q)'
    <2>1. /\ \/ q # s /\ Sending(q)' = Sending(q) /\ Acknowledged(q)' = Acknowledged(q)
             \/ q = s
          /\ \/ q # d /\ Receiving(q)' = Receiving(q) /\ Completing(q)' = Completing(q)
             \/ q = d
        BY <1>5, <1>6 DEF Sending, Acknowledged, Receiving, Completing
    <2>2. /\ NoneTwice(recv_queue'[q], "wr_id") /\ NoneTwice(send_queue'[q], "wr_id")
          /\ NoneTwice(unacknowledged'[q], "wr_id") /\ NoneTwice(cq'[q], "wr_id")
        BY <1>5, <1>6, <1>7, <1>8 DEF Tracked
    <2>3. /\ Receiving(q)' \cup Completing(q)' = Receiving(q) \cup Completing(q)
          /\ Receiving(q)' \subseteq Receiving(q)
          /\ Sending(q)' \cup Acknowledged(q)' = Sending(q) \cup Acknowledged(q)
          /\ Sending(q)' \cap Acknowledged(q)' = {}
        BY <1>7, <1>8, <2>1 DEF Tracked
    <2>4. Completing(q)' \cap Receiving(q)' = {}
        BY <1>8, <2>1 DEF Tracked
    <2>5. Completing(q)' \cap (Sending(q)' \cup Acknowledged(q)') = {}
        <3>1. Receiving(q) \cap (Sending(q) \cup Acknowledged(q)) = {}
            <4>1. "recv" # "send"
                OBVIOUS
            <4> QED
                BY <4>1 DEF Tracked
        <3> QED
            BY <2>3, <3>1 DEF Tracked
    <2>6. /\ next_request_id'[q] = next_request_id[q]
          /\ pending_requests'[q] = pending_requests[q] /\ completed'[q] = completed[q]
        BY <1>4
    <2> QED
        BY <2>2, <2>3, <2>4, <2>5, <2>6 DEF Tracked
<1> QED
    BY <1>9

\* The oldest acknowledged send completes, with or without an error.
LEMMA AcknowledgedCompletes ==
    ASSUME TypeOKVerbs, NEW s \in Ranks, \A q \in Ranks : Tracked(q),
           unacknowledged[s] # <<>>, NEW completion \in Completions,
           completion.wr_id = Head(unacknowledged[s]).wr_id,
           unacknowledged' = [unacknowledged EXCEPT ![s] = Tail(@)],
           cq' = [cq EXCEPT ![s] = Append(@, completion)],
           UNCHANGED <<next_request_id, pending_requests, completed, recv_queue, send_queue>>
    PROVE  \A q \in Ranks : Tracked(q)'
<1> DEFINE state == completion.wr_id
<1>1. /\ unacknowledged[s] \in Seq(SendWrs) /\ cq[s] \in Seq(Completions)
      /\ unacknowledged'[s] = Tail(unacknowledged[s])
      /\ cq'[s] = Append(cq[s], completion)
      /\ \A q \in Ranks \ {s} : SameRequests(q)
    BY DEF TypeOKVerbs, SameRequests
<1>2. /\ Acknowledged(s) = Acknowledged(s)' \cup {state}
      /\ NoneTwice(unacknowledged[s], "wr_id") =>
            NoneTwice(unacknowledged'[s], "wr_id") /\ state \notin Acknowledged(s)'
    BY <1>1, NamedTail DEF Acknowledged
<1>3. /\ Completing(s)' = Completing(s) \cup {state}
      /\ NoneTwice(cq[s], "wr_id") /\ state \notin Completing(s)
           => NoneTwice(cq'[s], "wr_id")
    BY <1>1, NamedAppend DEF Completing
<1>4. Receiving(s)' = Receiving(s) /\ Sending(s)' = Sending(s)
    BY DEF Receiving, Sending
<1> HIDE DEF state
<1>5. Receiving(s) \cap (Sending(s) \cup Acknowledged(s)) = {}
    <2>1. "recv" # "send"
        OBVIOUS
    <2> QED
        BY <2>1 DEF Tracked
<1>6. Tracked(s)'
    <2>1. /\ NoneTwice(recv_queue'[s], "wr_id") /\ NoneTwice(send_queue'[s], "wr_id")
          /\ NoneTwice(unacknowledged'[s], "wr_id") /\ NoneTwice(cq'[s], "wr_id")
          /\ state \notin Acknowledged(s)'
        BY <1>2, <1>3 DEF Tracked
    <2> QED
        BY <1>2, <1>3, <1>4, <1>5, <2>1 DEF Tracked
<1> QED
    BY <1>1, <1>6, TrackedStable

\* The oldest undelivered send completes, on a queue pair in the error state.
LEMMA SendCompletes ==
    ASSUME TypeOKVerbs, NEW s \in Ranks, \A q \in Ranks : Tracked(q),
           send_queue[s] # <<>>, NEW completion \in Completions,
           completion.wr_id = Head(send_queue[s]).wr_id,
           send_queue' = [send_queue EXCEPT ![s] = Tail(@)],
           cq' = [cq EXCEPT ![s] = Append(@, completion)],
           UNCHANGED <<next_request_id, pending_requests, completed, recv_queue,
                       unacknowledged>>
    PROVE  \A q \in Ranks : Tracked(q)'
<1> DEFINE state == completion.wr_id
<1>1. /\ send_queue[s] \in Seq(SendWrs) /\ cq[s] \in Seq(Completions)
      /\ send_queue'[s] = Tail(send_queue[s])
      /\ cq'[s] = Append(cq[s], completion)
      /\ \A q \in Ranks \ {s} : SameRequests(q)
    BY DEF TypeOKVerbs, SameRequests
<1>2. /\ Sending(s) = Sending(s)' \cup {state}
      /\ NoneTwice(send_queue[s], "wr_id") =>
            NoneTwice(send_queue'[s], "wr_id") /\ state \notin Sending(s)'
    BY <1>1, NamedTail DEF Sending
<1>3. /\ Completing(s)' = Completing(s) \cup {state}
      /\ NoneTwice(cq[s], "wr_id") /\ state \notin Completing(s)
           => NoneTwice(cq'[s], "wr_id")
    BY <1>1, NamedAppend DEF Completing
<1>4. Receiving(s)' = Receiving(s) /\ Acknowledged(s)' = Acknowledged(s)
    BY DEF Receiving, Acknowledged
<1> HIDE DEF state
<1>5. Receiving(s) \cap (Sending(s) \cup Acknowledged(s)) = {}
    <2>1. "recv" # "send"
        OBVIOUS
    <2> QED
        BY <2>1 DEF Tracked
<1>6. Tracked(s)'
    <2>1. /\ NoneTwice(recv_queue'[s], "wr_id") /\ NoneTwice(send_queue'[s], "wr_id")
          /\ NoneTwice(unacknowledged'[s], "wr_id") /\ NoneTwice(cq'[s], "wr_id")
          /\ state \notin Sending(s)'
        BY <1>2, <1>3 DEF Tracked
    <2> QED
        BY <1>2, <1>3, <1>4, <1>5, <2>1 DEF Tracked
<1> QED
    BY <1>1, <1>6, TrackedStable

LEMMA AcknowledgeTracked ==
    ASSUME TypeOKVerbs, NEW s \in Ranks, \A q \in Ranks : Tracked(q), Acknowledge(s)
    PROVE  \A q \in Ranks : Tracked(q)'
<1> DEFINE send == Head(unacknowledged[s])
           completion == SendCompletion(send, TRUE)
<1>1. unacknowledged[s] \in Seq(SendWrs) /\ unacknowledged[s] # <<>>
    BY DEF TypeOKVerbs, Acknowledge
<1>2. send \in SendWrs
    BY <1>1
<1>3. completion \in Completions /\ completion.wr_id = send.wr_id
    BY <1>2 DEF SendCompletion, Completion, Completions, SendWrs, NoImmediate
<1>4. /\ unacknowledged' = [unacknowledged EXCEPT ![s] = Tail(@)]
      /\ cq' = [cq EXCEPT ![s] = Append(@, completion)]
      /\ UNCHANGED <<next_request_id, pending_requests, completed, recv_queue, send_queue>>
    BY DEF Acknowledge
<1> HIDE DEF completion
<1> QED
    BY <1>1, <1>3, <1>4, AcknowledgedCompletes

LEMMA FlushSendTracked ==
    ASSUME TypeOKVerbs, NEW s \in Ranks, \A q \in Ranks : Tracked(q), FlushSend(s)
    PROVE  \A q \in Ranks : Tracked(q)'
<1> DEFINE all == unacknowledged[s] \o send_queue[s]
           flushed == Head(all)
           completion == SendCompletion(flushed, FALSE)
<1>1. unacknowledged[s] \in Seq(SendWrs) /\ send_queue[s] \in Seq(SendWrs)
    BY DEF TypeOKVerbs
<1>2. all \in Seq(SendWrs) /\ all # <<>>
    <2>1. all \in Seq(SendWrs)
        BY <1>1, ConcatProperties
    <2>2. all # <<>>
        BY DEF FlushSend
    <2> QED
        BY <2>1, <2>2
<1>3. IF unacknowledged[s] # <<>> THEN flushed = Head(unacknowledged[s])
      ELSE flushed = Head(send_queue[s]) /\ send_queue[s] # <<>>
    <2>1. CASE unacknowledged[s] # <<>>
        BY <1>1, <2>1, HeadOfConcat, Zenon
    <2>2. CASE unacknowledged[s] = <<>>
        <3>1. all = send_queue[s]
            BY <1>1, <2>2, ConcatEmptySeq
        <3> QED
            BY <1>2, <2>2, <3>1
    <2> QED
        BY <2>1, <2>2
<1>4. /\ cq' = [cq EXCEPT ![s] = Append(@, completion)]
      /\ UNCHANGED <<next_request_id, pending_requests, completed, recv_queue>>
      /\ IF unacknowledged[s] # <<>>
         THEN /\ unacknowledged' = [unacknowledged EXCEPT ![s] = Tail(@)]
              /\ UNCHANGED send_queue
         ELSE /\ send_queue' = [send_queue EXCEPT ![s] = Tail(@)]
              /\ UNCHANGED unacknowledged
    BY DEF FlushSend
<1> HIDE DEF all
<1>5. flushed \in SendWrs
    BY <1>2
<1>6. completion \in Completions /\ completion.wr_id = flushed.wr_id
    BY <1>5 DEF SendCompletion, Completion, Completions, SendWrs, NoImmediate
<1> HIDE DEF flushed, completion
<1>7. CASE unacknowledged[s] # <<>>
    BY <1>3, <1>4, <1>6, <1>7, AcknowledgedCompletes
<1>8. CASE unacknowledged[s] = <<>>
    BY <1>3, <1>4, <1>6, <1>8, SendCompletes
<1> QED
    BY <1>7, <1>8

-----------------------------------------------------------------------------
(* Every step of a rank and of the fabric.                                   *)

LEMMA PostReceiveTracked ==
    ASSUME TypeOKVerbs, NEW r \in Ranks, \A q \in Ranks : Tracked(q),
           NEW region \in Regions, NEW bytes \in Nat, NEW tag \in Nat, NEW mode,
           TakeId(r),
           pending_requests' = [pending_requests EXCEPT ![r] =
                                  @ \cup {NewRequest(r, "recv", tag, bytes, mode)}],
           recv_queue' = [recv_queue EXCEPT ![r] =
               Append(@, RecvWr(NewRequest(r, "recv", tag, bytes, mode), bytes, region))],
           UNCHANGED <<completed, send_queue, unacknowledged, cq>>
    PROVE  \A q \in Ranks : Tracked(q)'
<1> DEFINE state == NewRequest(r, "recv", tag, bytes, mode)
           recv  == RecvWr(state, bytes, region)
<1>1. /\ state \in RequestStates /\ state.kind = "recv"
      /\ state.id = next_request_id[r]
    BY NewRequestType DEF NewRequest, RequestState
<1>2. recv \in RecvWrs /\ recv.wr_id = state
    BY <1>1, EmptyRegion DEF RecvWr, RecvWrs
<1> HIDE DEF state, recv
<1>3. /\ pending_requests' = [pending_requests EXCEPT ![r] = @ \cup {recv.wr_id}]
      /\ recv_queue' = [recv_queue EXCEPT ![r] = Append(@, recv)]
    BY <1>2 DEF state, recv
<1> QED
    BY <1>1, <1>2, <1>3, NewRecvTracked

LEMMA PostSendTracked ==
    ASSUME TypeOKVerbs, NEW r \in Ranks, \A q \in Ranks : Tracked(q),
           NEW region \in Regions, NEW bytes \in Nat, NEW tag \in Nat, NEW mode,
           post_send_next(r, region, bytes, tag, mode)
    PROVE  \A q \in Ranks : Tracked(q)'
<1> DEFINE state == NewRequest(r, "send", tag, bytes, mode)
           next == NextRank(r)
           descriptor == Head(control[next])
           send == SendWr(state, bytes, region, descriptor.remote_address)
<1>1. /\ state \in RequestStates /\ state.tag = tag /\ state.kind = "send"
      /\ state.id = next_request_id[r]
    BY NewRequestType DEF NewRequest, RequestState
<1>2. next \in Ranks /\ control[next] \in Seq(ControlMessages) /\ control[next] # <<>>
    BY RankFacts DEF TypeOKVerbs, post_send_next
<1>3. descriptor \in ControlMessages
    BY <1>2
<1>4. send \in SendWrs /\ send.wr_id = state
    BY <1>1, <1>3 DEF SendWr, SendWrs, ControlMessages, RequestStates
<1>5. /\ TakeId(r)
      /\ pending_requests' = [pending_requests EXCEPT ![r] = @ \cup {state}]
      /\ send_queue' = [send_queue EXCEPT ![r] = Append(@, send)]
      /\ UNCHANGED <<completed, recv_queue, unacknowledged, cq>>
    BY DEF post_send_next
<1> HIDE DEF state, send
<1>6. /\ send.wr_id.kind = "send" /\ send.wr_id.id = next_request_id[r]
      /\ pending_requests' = [pending_requests EXCEPT ![r] = @ \cup {send.wr_id}]
    BY <1>1, <1>4, <1>5
<1> QED
    BY <1>4, <1>5, <1>6, NewSendTracked

LEMMA RunTracked ==
    ASSUME TrackedInv, NEW r \in Ranks, RunRank(r)
    PROVE  \A q \in Ranks : Tracked(q)'
<1>1. TypeOKVerbs /\ ProgramOK /\ \A q \in Ranks : Tracked(q)
    BY DEF TrackedInv, TypeInv, TypeOK, ProgramOK
<1>2. ASSUME UNCHANGED verbs_vars PROVE \A q \in Ranks : Tracked(q)'
    BY <1>1, <1>2, TrackedStable DEF verbs_vars, SameRequests
<1>3. CASE PostRecv(r)
    <2>1. RecvRegion(r) \in Regions /\ RecvBytes(r) \in Nat /\ Tag(r) \in Nat
        BY <1>1, <1>3, PostedRegions, TagTypes DEF PostRecv
    <2>2. CASE post_receive_previous(r, RecvRegion(r), RecvBytes(r), Tag(r), transfer_mode(r))
        BY <1>1, <2>1, <2>2, PostReceiveTracked DEF post_receive_previous
    <2>3. CASE post_receive_throws(r)
        BY <1>1, <2>3, ThrowsTracked DEF post_receive_throws
    <2> QED
        BY <1>3, <2>2, <2>3 DEF PostRecv
<1>4. CASE PostSend(r)
    <2>1. SendRegion(r) \in Regions /\ SendBytes(r) \in Nat /\ Tag(r) \in Nat
        BY <1>1, <1>4, PostedRegions, TagTypes DEF PostSend
    <2>2. CASE post_send_next(r, SendRegion(r), SendBytes(r), Tag(r), transfer_mode(r))
        BY <1>1, <2>1, <2>2, PostSendTracked
    <2>3. CASE post_send_throws(r, SendBytes(r), Tag(r), transfer_mode(r))
        BY <1>1, <2>3, ThrowsTracked DEF post_send_throws
    <2> QED
        BY <1>4, <2>2, <2>3 DEF PostSend
<1>5. CASE Proceed(r) /\ UNCHANGED verbs_vars
    BY <1>2, <1>5
<1>6. CASE Poll(r)
    BY <1>1, <1>6, HandleCompletionTracked DEF Poll
<1>7. CASE Wait(r)
    BY <1>1, <1>7, ConsumeTracked DEF Wait
<1>8. CASE PollFails(r)
    BY <1>2, <1>8 DEF PollFails
<1> QED
    BY <1>3, <1>4, <1>5, <1>6, <1>7, <1>8 DEF RunRank

LEMMA FabricTracked ==
    ASSUME TypeOKVerbs, NEW s \in Ranks, \A q \in Ranks : Tracked(q),
           Deliver(s) \/ Acknowledge(s) \/ BreakLink(s) \/ FlushSend(s)
    PROVE  \A q \in Ranks : Tracked(q)'
<1>1. CASE BreakLink(s)
    BY <1>1, TrackedStable DEF BreakLink, SameRequests
<1> QED
    BY <1>1, DeliverTracked, AcknowledgeTracked, FlushSendTracked

LEMMA InitTracked == Init => TrackedInv
<1> SUFFICES ASSUME Init PROVE TrackedInv
    OBVIOUS
<1>1. ASSUME NEW r \in Ranks PROVE Tracked(r)
    <2>1. /\ pending_requests[r] = {} /\ completed[r] = {}
          /\ recv_queue[r] = <<>> /\ send_queue[r] = <<>>
          /\ unacknowledged[r] = <<>> /\ cq[r] = <<>>
        BY DEF Init, InitVerbs
    <2> QED
        BY <2>1, NamedEmpty DEF Tracked, Receiving, Sending, Acknowledged, Completing
<1> QED
    BY <1>1, InitTypes DEF TrackedInv

LEMMA NextTracked == TrackedInv /\ [Next]_vars => TrackedInv'
<1> SUFFICES ASSUME TrackedInv, [Next]_vars PROVE TrackedInv'
    OBVIOUS
<1>1. TypeInv'
    BY NextTypes DEF TrackedInv
<1>2. TypeOKVerbs /\ \A q \in Ranks : Tracked(q)
    BY DEF TrackedInv, TypeInv, TypeOK
<1>3. CASE UNCHANGED vars
    BY <1>2, <1>3, TrackedStable, <1>1 DEF vars, verbs_vars, SameRequests, TrackedInv
<1>4. ASSUME NEW r \in Ranks, RunRank(r) PROVE TrackedInv'
    BY <1>1, <1>4, RunTracked DEF TrackedInv
<1>5. ASSUME NEW s \in Ranks, Fabric(s) PROVE TrackedInv'
    BY <1>1, <1>2, <1>5, FabricTracked DEF Fabric, TrackedInv
<1> QED
    BY <1>3, <1>4, <1>5 DEF Next, Finished

LEMMA TrackedCompletions == TrackedInv => CompletionsKnown
<1> SUFFICES ASSUME TrackedInv PROVE CompletionsKnown
    OBVIOUS
<1>1. ASSUME NEW r \in Ranks
      PROVE  /\ \A k \in 1..Len(cq[r]) :
                    cq[r][k].wr_id \in pending_requests[r] \ completed[r]
             /\ \A j, k \in 1..Len(cq[r]) : j # k => cq[r][j].wr_id # cq[r][k].wr_id
    <2>1. Tracked(r)
        BY DEF TrackedInv
    <2>2. \A k \in 1..Len(cq[r]) : cq[r][k]["wr_id"] \in Completing(r)
        BY DEF Completing, Named
    <2>3. \A j, k \in 1..Len(cq[r]) : j # k => cq[r][j]["wr_id"] # cq[r][k]["wr_id"]
        BY <2>1 DEF Tracked, NoneTwice
    <2> QED
        BY <2>1, <2>2, <2>3 DEF Tracked
<1> QED
    BY <1>1 DEF CompletionsKnown

\* Every completion names a request its transport still holds and has not seen
\* completed, each a different one, whatever fails: the exception for an unknown
\* wr_id is never thrown and no RequestState is used after it was freed
\* (handle_completion, consume_request).
THEOREM CompletionsNameRequests == Spec => []CompletionsKnown
BY TrackedCompletions, InitTracked, NextTracked, PTL DEF Spec

-----------------------------------------------------------------------------
(* What a rank's program and its requests have to do with each other.        *)

\* The requests the call in progress still has to wait for.
Held(r) == Named(recv_requests[r], "request") \cup Named(send_requests[r], "request")

\* While no call has failed, the pending requests are those the call waits for.
Kept(r) ==
    /\ NoneTwice(recv_requests[r], "request") /\ NoneTwice(send_requests[r], "request")
    /\ \A q \in Named(recv_requests[r], "request") : q.kind = "recv"
    /\ \A q \in Named(send_requests[r], "request") : q.kind = "send"
    /\ Unfailed(r) => pending_requests[r] = Held(r)

\* A batch posts no more of a kind than its capacity, and ends with none left.
InBatch(r) ==
    /\ Len(recv_requests[r]) <= batch_capacity(r)
    /\ Len(send_requests[r]) <= batch_capacity(r)
    /\ pc[r] = "postRecv" => Len(recv_requests[r]) <= piece[r] - BeginPiece(r)
    /\ pc[r] = "postSend" => Len(send_requests[r]) <= piece[r] - BeginPiece(r)
    /\ pc[r] \in {"idle", "batch", "postRecv"} => send_requests[r] = <<>>

OfKind(requests, kind) == {q \in requests : q.kind = kind}

\* After a failed call its requests stay pending, no more than before.
Bounded(r) ==
    \A kind \in {"recv", "send"} :
        /\ IsFiniteSet(OfKind(pending_requests[r], kind))
        /\ Cardinality(OfKind(pending_requests[r], kind)) <= batch_capacity(r)

\* A descriptor under way, or a message, has a receive WR of its own waiting.
Covered(s) ==
    Len(send_queue[s]) + Len(control[NextRank(s)]) <= Len(recv_queue[NextRank(s)])

HeldAt(r) == Kept(r) /\ InBatch(r) /\ Bounded(r)

HeldInv ==
    /\ LinkInv
    /\ \A r \in Ranks : Tracked(r) /\ Covered(r) /\ HeldAt(r)

\* What it says of a rank by itself, whatever its links carry.
Holding(r) == FailedStaysOut(r) /\ Tracked(r) /\ HeldAt(r)

\* A step of rank r leaves the programs of the other ranks alone, and their
\* transports but for the descriptors on the sockets to its neighbours.
ProgramOthers(r) ==
    \A q \in Ranks \ {r} :
        /\ pc'[q] = pc[q] /\ phase'[q] = phase[q] /\ step'[q] = step[q]
        /\ batch'[q] = batch[q] /\ piece'[q] = piece[q] /\ sequence'[q] = sequence[q]
        /\ recv_requests'[q] = recv_requests[q] /\ send_requests'[q] = send_requests[q]
        /\ calls'[q] = calls[q] /\ returned'[q] = returned[q] /\ memory'[q] = memory[q]

VerbsOthers(r) ==
    \A q \in Ranks \ {r} : SameRequests(q) /\ errored'[q] = errored[q]

LEMMA ReturnOthers ==
    ASSUME TypeInv, NEW r \in Ranks, NEW status, Return(r, status), UNCHANGED memory,
           \A q \in Ranks \ {r} : sequence'[q] = sequence[q] /\ calls'[q] = calls[q]
    PROVE  ProgramOthers(r)
BY DEF ProgramOthers, Return, Goto, TypeInv, TypeOK, TypeOKProgram

LEMMA ReturnErrorOthers ==
    ASSUME TypeInv, NEW r \in Ranks, NEW status, ReturnError(r, status)
    PROVE  ProgramOthers(r)
BY ReturnOthers DEF ReturnError

LEMMA LoopOthers ==
    ASSUME TypeInv, NEW r \in Ranks, Loop(r)
    PROVE  ProgramOthers(r)
BY DEF ProgramOthers, Loop, BeginBatch, NextStep, BeginAllGather, EndPostRecv, EndPostSend,
       EndWaitRecv, EndBatch, Goto, TypeInv, TypeOK, TypeOKProgram

LEMMA ProceedOthers ==
    ASSUME TypeInv, NEW r \in Ranks, Proceed(r)
    PROVE  ProgramOthers(r)
<1>1. calls \in [Ranks -> 0..Len(Calls)] /\ sequence \in [Ranks -> Nat]
    BY DEF TypeInv, TypeOK, TypeOKProgram
<1>2. CASE RefuseCall(r)
    <2>1. \A q \in Ranks \ {r} : sequence'[q] = sequence[q] /\ calls'[q] = calls[q]
        BY <1>1, <1>2 DEF RefuseCall
    <2>2. UNCHANGED memory /\ \E status \in Statuses : Return(r, status)
        BY <1>2 DEF RefuseCall, Statuses
    <2> QED
        BY <2>1, <2>2, ReturnOthers
<1>3. CASE BeginCall(r)
    BY <1>3 DEF BeginCall, Goto, ProgramOthers, TypeInv, TypeOK, TypeOKProgram, TypeOKMemory
<1>4. CASE ReturnSuccess(r)
    <2>1. \A q \in Ranks \ {r} : sequence'[q] = sequence[q] /\ calls'[q] = calls[q]
        BY <1>1, <1>4 DEF ReturnSuccess
    <2>2. UNCHANGED memory /\ Return(r, PG_SUCCESS)
        BY <1>4 DEF ReturnSuccess
    <2> QED
        BY <2>1, <2>2, ReturnOthers
<1>5. CASE TagOutOfRange(r)
    BY <1>5, ReturnErrorOthers DEF TagOutOfRange
<1>6. CASE Loop(r)
    BY <1>6, LoopOthers
<1> QED
    BY <1>2, <1>3, <1>4, <1>5, <1>6 DEF Proceed, Loop

LEMMA RunOthers ==
    ASSUME TypeInv, NEW r \in Ranks, RunRank(r)
    PROVE  ProgramOthers(r) /\ VerbsOthers(r)
<1> USE DEF TypeInv, TypeOK
<1>1. ASSUME UNCHANGED <<program_vars, memory>> PROVE ProgramOthers(r)
    BY <1>1 DEF ProgramOthers, program_vars
<1>2. ASSUME UNCHANGED verbs_vars PROVE VerbsOthers(r)
    BY <1>2 DEF VerbsOthers, SameRequests, verbs_vars
<1>3. CASE Proceed(r) /\ UNCHANGED verbs_vars
    BY <1>2, <1>3, ProceedOthers
<1>4. CASE PostRecv(r)
    <2>1. ASSUME NEW request, RecvPosted(r, request) PROVE ProgramOthers(r)
        BY <2>1 DEF RecvPosted, ProgramOthers, TypeOKProgram
    <2>2. VerbsOthers(r)
        BY <1>4 DEF PostRecv, post_receive_previous, post_receive_throws, TakeId,
                    VerbsOthers, SameRequests, TypeOKVerbs
    <2> QED
        BY <1>4, <2>1, <2>2, ReturnErrorOthers DEF PostRecv
<1>5. CASE PostSend(r)
    <2>1. ASSUME NEW request, SendPosted(r, request) PROVE ProgramOthers(r)
        BY <2>1 DEF SendPosted, ProgramOthers, TypeOKProgram
    <2>2. VerbsOthers(r)
        BY <1>5 DEF PostSend, post_send_next, post_send_throws, TakeId,
                    VerbsOthers, SameRequests, TypeOKVerbs
    <2> QED
        BY <1>5, <2>1, <2>2, ReturnErrorOthers DEF PostSend
<1>6. CASE Poll(r)
    <2>1. VerbsOthers(r)
        BY <1>6 DEF Poll, handle_completion, VerbsOthers, SameRequests, TypeOKVerbs
    <2> QED
        BY <1>1, <1>6, <2>1 DEF Poll
<1>7. CASE PollFails(r)
    BY <1>2, <1>7, ReturnErrorOthers DEF PollFails
<1>8. CASE Wait(r)
    <2>1. VerbsOthers(r)
        BY <1>8 DEF Wait, consume_request, VerbsOthers, SameRequests, TypeOKVerbs
    <2>2. ASSUME RecvWaited(r) PROVE ProgramOthers(r)
        BY <2>2 DEF RecvWaited, Stored, ProgramOthers, TypeOKProgram, TypeOKMemory
    <2>3. ASSUME SendWaited(r) PROVE ProgramOthers(r)
        BY <2>3 DEF SendWaited, ProgramOthers, TypeOKProgram
    <2> QED
        BY <1>8, <2>1, <2>2, <2>3, ReturnErrorOthers DEF Wait, OperationUnsupported
<1> QED
    BY <1>3, <1>4, <1>5, <1>6, <1>7, <1>8 DEF RunRank

-----------------------------------------------------------------------------
(* Counting.                                                                 *)

LEMMA NamedCardinality ==
    ASSUME NEW S, NEW queue \in Seq(S), NEW field
    PROVE  /\ IsFiniteSet(Named(queue, field))
           /\ Cardinality(Named(queue, field)) <= Len(queue)
           /\ NoneTwice(queue, field) => Cardinality(Named(queue, field)) = Len(queue)
<1> DEFINE name == [k \in 1..Len(queue) |-> queue[k][field]]
<1>1. Len(queue) \in Nat
    OBVIOUS
<1>2. IsFiniteSet(1..Len(queue)) /\ Cardinality(1..Len(queue)) = Len(queue)
    <2>1. /\ IsFiniteSet(1..Len(queue))
          /\ Cardinality(1..Len(queue)) = IF 1 > Len(queue) THEN 0 ELSE Len(queue) - 1 + 1
        <3>1. 1 \in Int /\ Len(queue) \in Int
            BY <1>1
        <3> QED
            BY <3>1, FS_Interval, Zenon
    <2>2. \A n \in Nat : (IF 1 > n THEN 0 ELSE n - 1 + 1) = n
        OBVIOUS
    <2> QED
        BY <1>1, <2>1, <2>2
<1>3. name \in Surjection(1..Len(queue), Named(queue, field))
    BY DEF Surjection, Named
<1>4. NoneTwice(queue, field) => name \in Injection(1..Len(queue), Named(queue, field))
    BY DEF Injection, IsInjective, NoneTwice, Named
<1> HIDE DEF name
<1>5. /\ IsFiniteSet(Named(queue, field))
      /\ Cardinality(Named(queue, field)) <= Cardinality(1..Len(queue))
      /\ Cardinality(Named(queue, field)) = Cardinality(1..Len(queue))
           <=> name \in Injection(1..Len(queue), Named(queue, field))
    BY <1>2, <1>3, FS_Surjection
<1> QED
    BY <1>2, <1>4, <1>5

\* A queue that names no request twice is no longer than the set it names from.
LEMMA NamedFits ==
    ASSUME NEW S, NEW queue \in Seq(S), NEW field, NoneTwice(queue, field),
           NEW T, IsFiniteSet(T), Named(queue, field) \subseteq T
    PROVE  Len(queue) <= Cardinality(T)
<1>1. /\ Named(queue, field) \in SUBSET T
      /\ Cardinality(Named(queue, field)) = Len(queue)
    BY NamedCardinality
<1> QED
    BY <1>1, FS_Subset

LEMMA BoundedShrinks ==
    ASSUME NEW r \in Ranks, Bounded(r), pending_requests'[r] \subseteq pending_requests[r]
    PROVE  Bounded(r)'
<1>1. ASSUME NEW kind \in {"recv", "send"}
      PROVE  /\ IsFiniteSet(OfKind(pending_requests'[r], kind))
             /\ Cardinality(OfKind(pending_requests'[r], kind)) <= batch_capacity(r)
    <2> DEFINE before == OfKind(pending_requests[r], kind)
               after  == OfKind(pending_requests'[r], kind)
    <2>1. IsFiniteSet(before) /\ Cardinality(before) <= batch_capacity(r)
        BY DEF Bounded
    <2>2. after \in SUBSET before
        BY DEF OfKind
    <2> HIDE DEF before, after
    <2>3. IsFiniteSet(after) /\ Cardinality(after) <= Cardinality(before)
        BY <2>1, <2>2, FS_Subset
    <2>4. /\ Cardinality(before) \in Nat /\ Cardinality(after) \in Nat
          /\ batch_capacity(r) \in Nat
        BY <2>1, <2>3, FS_CardinalityType, ConfigTypes
    <2>5. IsFiniteSet(after) /\ Cardinality(after) <= batch_capacity(r)
        BY <2>1, <2>3, <2>4
    <2> QED
        BY <2>5 DEF after
<1> QED
    BY <1>1 DEF Bounded

\* The bound when the pending requests are those the call waits for.
LEMMA BoundedByBatch ==
    ASSUME NEW r \in Ranks, NEW S, NEW recvs \in Seq(S), NEW sends \in Seq(S),
           Len(recvs) <= batch_capacity(r), Len(sends) <= batch_capacity(r),
           \A q \in Named(recvs, "request") : q.kind = "recv",
           \A q \in Named(sends, "request") : q.kind = "send",
           NEW pending, pending = Named(recvs, "request") \cup Named(sends, "request"),
           NEW kind \in {"recv", "send"}
    PROVE  /\ IsFiniteSet(OfKind(pending, kind))
           /\ Cardinality(OfKind(pending, kind)) <= batch_capacity(r)
<1>1. /\ IsFiniteSet(Named(recvs, "request"))
      /\ Cardinality(Named(recvs, "request")) <= Len(recvs)
      /\ IsFiniteSet(Named(sends, "request"))
      /\ Cardinality(Named(sends, "request")) <= Len(sends)
    BY NamedCardinality
<1>2. \/ OfKind(pending, kind) = Named(recvs, "request")
      \/ OfKind(pending, kind) = Named(sends, "request")
    <2>1. "recv" # "send"
        OBVIOUS
    <2> QED
        BY <2>1 DEF OfKind
<1>3. /\ Len(recvs) \in Nat /\ Len(sends) \in Nat /\ batch_capacity(r) \in Nat
    BY ConfigTypes
<1>4. /\ Cardinality(Named(recvs, "request")) \in Nat
      /\ Cardinality(Named(sends, "request")) \in Nat
    BY <1>1, FS_CardinalityType
<1>5. /\ Cardinality(Named(recvs, "request")) <= batch_capacity(r)
      /\ Cardinality(Named(sends, "request")) <= batch_capacity(r)
    BY <1>1, <1>3, <1>4
<1> QED
    BY <1>1, <1>2, <1>5

-----------------------------------------------------------------------------
(* Descriptors and messages are covered by receives.                         *)

LEMMA CoveredStable ==
    ASSUME NEW s, Covered(s), send_queue'[s] = send_queue[s],
           recv_queue'[NextRank(s)] = recv_queue[NextRank(s)],
           control'[NextRank(s)] = control[NextRank(s)]
    PROVE  Covered(s)'
BY DEF Covered

\* The lengths Covered(s) compares, before and after a step.
LEMMA CoveredLengths ==
    ASSUME TypeOKVerbs, NEW s \in Ranks
    PROVE  /\ NextRank(s) \in Ranks
           /\ Len(send_queue[s]) \in Nat /\ Len(recv_queue[NextRank(s)]) \in Nat
           /\ Len(control[NextRank(s)]) \in Nat
<1>1. NextRank(s) \in Ranks
    BY RankFacts
<1>2. /\ send_queue[s] \in Seq(SendWrs) /\ recv_queue[NextRank(s)] \in Seq(RecvWrs)
      /\ control[NextRank(s)] \in Seq(ControlMessages)
    BY <1>1 DEF TypeOKVerbs
<1> QED
    BY <1>1, <1>2

LEMMA CoveredStep ==
    ASSUME TypeOKVerbs, NEW s \in Ranks, Covered(s),
           NEW sends \in -1..1, NEW recvs \in -1..1, NEW descriptors \in -1..1,
           sends + descriptors <= recvs,
           Len(send_queue'[s]) = Len(send_queue[s]) + sends,
           Len(recv_queue'[NextRank(s)]) = Len(recv_queue[NextRank(s)]) + recvs,
           Len(control'[NextRank(s)]) = Len(control[NextRank(s)]) + descriptors
    PROVE  Covered(s)'
<1>1. Len(send_queue[s]) + Len(control[NextRank(s)]) <= Len(recv_queue[NextRank(s)])
    BY DEF Covered
<1>2. ASSUME NEW a \in Nat, NEW b \in Nat, NEW c \in Nat, a + b <= c
      PROVE  (a + sends) + (b + descriptors) <= c + recvs
    BY <1>2
<1>3. (Len(send_queue[s]) + sends) + (Len(control[NextRank(s)]) + descriptors)
        <= Len(recv_queue[NextRank(s)]) + recvs
    BY <1>1, <1>2, CoveredLengths, Zenon
<1>4. Covered(s)' <=>
        (Len(send_queue[s]) + sends) + (Len(control[NextRank(s)]) + descriptors)
          <= Len(recv_queue[NextRank(s)]) + recvs
    BY Zenon DEF Covered, NextRank
<1> QED
    BY <1>3, <1>4

LEMMA RunCovered ==
    ASSUME TypeOKVerbs, NEW r \in Ranks, \A s \in Ranks : Covered(s), RunRank(r)
    PROVE  \A s \in Ranks : Covered(s)'
<1> DEFINE next == NextRank(r)
<1>1. next \in Ranks
    BY RankFacts
<1>2. /\ send_queue \in [Ranks -> Seq(SendWrs)] /\ recv_queue \in [Ranks -> Seq(RecvWrs)]
      /\ control \in [Ranks -> Seq(ControlMessages)]
    BY DEF TypeOKVerbs
<1>3. ASSUME NEW s \in Ranks
      PROVE  /\ Len(send_queue[s]) \in Nat /\ Len(recv_queue[NextRank(s)]) \in Nat
             /\ Len(control[NextRank(s)]) \in Nat /\ NextRank(s) \in Ranks
    BY CoveredLengths
<1>4. ASSUME UNCHANGED <<send_queue, recv_queue, control>>
      PROVE  \A s \in Ranks : Covered(s)'
    BY <1>4, CoveredStable
<1>5. ASSUME NEW region, NEW bytes, NEW tag, NEW mode,
             post_receive_previous(r, region, bytes, tag, mode)
      PROVE  \A s \in Ranks : Covered(s)'
    <2>1. /\ send_queue' = send_queue
          /\ \E recv : recv_queue' = [recv_queue EXCEPT ![r] = Append(@, recv)]
          /\ \E message : control' = [control EXCEPT ![r] = Append(@, message)]
        BY <1>5 DEF post_receive_previous
    <2>2. /\ Len(recv_queue'[r]) = Len(recv_queue[r]) + 1
          /\ Len(control'[r]) = Len(control[r]) + 1
          /\ \A q \in Ranks \ {r} : recv_queue'[q] = recv_queue[q] /\ control'[q] = control[q]
        <3>1. recv_queue[r] \in Seq(RecvWrs) /\ control[r] \in Seq(ControlMessages)
            BY <1>2
        <3>2. PICK recv : recv_queue' = [recv_queue EXCEPT ![r] = Append(@, recv)]
            BY <2>1
        <3>3. PICK message : control' = [control EXCEPT ![r] = Append(@, message)]
            BY <2>1
        <3> QED
            BY <1>2, <3>1, <3>2, <3>3
    <2>3. ASSUME NEW s \in Ranks PROVE Covered(s)'
        <3>1. CASE NextRank(s) = r
            <4>1. /\ Len(send_queue'[s]) = Len(send_queue[s]) + 0
                  /\ 0 \in -1..1 /\ 1 \in -1..1 /\ 0 + 1 <= 1
                BY <1>3, <2>1
            <4> QED
                BY <2>2, <3>1, <4>1, CoveredStep
        <3>2. CASE NextRank(s) # r
            BY <1>3, <2>1, <2>2, <3>2, CoveredStable
        <3> QED
            BY <3>1, <3>2
    <2> QED
        BY <2>3
<1>6. ASSUME NEW region, NEW bytes, NEW tag, NEW mode,
             \/ post_send_next(r, region, bytes, tag, mode)
             \/ post_send_throws(r, bytes, tag, mode)
      PROVE  \A s \in Ranks : Covered(s)'
    <2>1. /\ recv_queue' = recv_queue /\ control[next] # <<>>
          /\ control' = [control EXCEPT ![next] = Tail(@)]
          /\ \/ send_queue' = send_queue
             \/ \E send : send_queue' = [send_queue EXCEPT ![r] = Append(@, send)]
        BY <1>6 DEF post_send_next, post_send_throws
    <2>2. /\ Len(control'[next]) = Len(control[next]) - 1
          /\ \A q \in Ranks \ {next} : control'[q] = control[q]
        BY <1>1, <1>2, <2>1
    <2>3. /\ \/ Len(send_queue'[r]) = Len(send_queue[r]) + 0
             \/ Len(send_queue'[r]) = Len(send_queue[r]) + 1
          /\ \A q \in Ranks \ {r} : send_queue'[q] = send_queue[q]
        <3>1. CASE send_queue' = send_queue
            BY <1>3, <3>1
        <3>2. ASSUME NEW send, send_queue' = [send_queue EXCEPT ![r] = Append(@, send)]
              PROVE  /\ Len(send_queue'[r]) = Len(send_queue[r]) + 1
                     /\ \A q \in Ranks \ {r} : send_queue'[q] = send_queue[q]
            <4>1. send_queue[r] \in Seq(SendWrs)
                BY <1>2
            <4> QED
                BY <1>2, <3>2, <4>1
        <3>3. CASE \E send : send_queue' = [send_queue EXCEPT ![r] = Append(@, send)]
            <4>1. PICK send : send_queue' = [send_queue EXCEPT ![r] = Append(@, send)]
                BY <3>3
            <4> QED
                BY <3>2, <4>1
        <3> QED
            BY <2>1, <3>1, <3>3
    <2>4. ASSUME NEW s \in Ranks PROVE Covered(s)'
        <3>1. CASE s = r
            <4>1. /\ Len(recv_queue'[next]) = Len(recv_queue[next]) + 0
                  /\ Len(control'[next]) = Len(control[next]) + -1
                BY <1>1, <1>3, <2>1, <2>2, <3>1
            <4>2. /\ 0 \in -1..1 /\ 1 \in -1..1 /\ -1 \in -1..1
                  /\ 0 + -1 <= 0 /\ 1 + -1 <= 0
                OBVIOUS
            <4> QED
                BY <2>3, <3>1, <4>1, <4>2, CoveredStep
        <3>2. CASE s # r
            <4>1. NextRank(s) # next
                BY <3>2, NextRankInjective
            <4> QED
                BY <1>3, <2>1, <2>2, <2>3, <3>2, <4>1, CoveredStable
        <3> QED
            BY <3>1, <3>2
    <2> QED
        BY <2>4
<1>7. CASE PostRecv(r)
    BY <1>4, <1>5, <1>7 DEF PostRecv, post_receive_throws
<1>8. CASE PostSend(r)
    BY <1>6, <1>8 DEF PostSend
<1>9. CASE ~PostRecv(r) /\ ~PostSend(r)
    BY <1>4, <1>9 DEF RunRank, verbs_vars, Poll, PollFails, Wait, handle_completion,
                      consume_request
<1> QED
    BY <1>7, <1>8, <1>9

LEMMA FabricCovered ==
    ASSUME TypeOKVerbs, NEW s \in Ranks, \A q \in Ranks : Covered(q),
           Deliver(s) \/ Acknowledge(s) \/ BreakLink(s) \/ FlushSend(s)
    PROVE  \A q \in Ranks : Covered(q)'
<1> DEFINE d == NextRank(s)
<1>1. d \in Ranks
    BY RankFacts
<1>2. send_queue \in [Ranks -> Seq(SendWrs)] /\ recv_queue \in [Ranks -> Seq(RecvWrs)]
    BY DEF TypeOKVerbs
<1>3. ASSUME NEW q \in Ranks
      PROVE  /\ Len(send_queue[q]) \in Nat /\ Len(recv_queue[NextRank(q)]) \in Nat
             /\ Len(control[NextRank(q)]) \in Nat /\ NextRank(q) \in Ranks
    BY CoveredLengths
<1>4. UNCHANGED control
    BY DEF Deliver, Acknowledge, BreakLink, FlushSend
<1>5. CASE Deliver(s)
    <2>1. /\ send_queue' = [send_queue EXCEPT ![s] = Tail(@)] /\ send_queue[s] # <<>>
          /\ recv_queue' = [recv_queue EXCEPT ![d] = Tail(@)] /\ recv_queue[d] # <<>>
        BY <1>5 DEF Deliver
    <2>2. /\ Len(send_queue'[s]) = Len(send_queue[s]) - 1
          /\ \A q \in Ranks \ {s} : send_queue'[q] = send_queue[q]
        BY <1>2, <2>1
    <2>3. /\ Len(recv_queue'[d]) = Len(recv_queue[d]) - 1
          /\ \A q \in Ranks \ {d} : recv_queue'[q] = recv_queue[q]
        BY <1>1, <1>2, <2>1
    <2>4. ASSUME NEW q \in Ranks PROVE Covered(q)'
        <3>1. CASE q = s
            <4>1. /\ Len(send_queue'[s]) = Len(send_queue[s]) + -1
                  /\ Len(recv_queue'[d]) = Len(recv_queue[d]) + -1
                  /\ Len(control'[d]) = Len(control[d]) + 0
                BY <1>3, <1>4, <2>2, <2>3, <3>1
            <4>2. 0 \in -1..1 /\ -1 \in -1..1 /\ -1 + 0 <= -1
                OBVIOUS
            <4> QED
                BY <3>1, <4>1, <4>2, CoveredStep
        <3>2. CASE q # s
            <4>1. NextRank(q) # d
                BY <3>2, NextRankInjective
            <4> QED
                BY <1>3, <1>4, <2>2, <2>3, <3>2, <4>1, CoveredStable
        <3> QED
            BY <3>1, <3>2
    <2> QED
        BY <2>4
<1>6. CASE FlushSend(s)
    <2>1. /\ UNCHANGED recv_queue
          /\ \/ UNCHANGED send_queue
             \/ /\ send_queue' = [send_queue EXCEPT ![s] = Tail(@)]
                /\ unacknowledged[s] = <<>>
        BY <1>6 DEF FlushSend
    <2>2. CASE UNCHANGED send_queue
        BY <1>4, <2>1, <2>2, CoveredStable
    <2>3. CASE /\ send_queue' = [send_queue EXCEPT ![s] = Tail(@)]
               /\ unacknowledged[s] = <<>>
        <3>1. send_queue[s] # <<>>
            <4>1. unacknowledged[s] \o send_queue[s] # <<>>
                BY <1>6 DEF FlushSend
            <4>2. send_queue[s] \in Seq(SendWrs)
                BY <1>2
            <4> QED
                BY <2>3, <4>1, <4>2, ConcatEmptySeq
        <3>2. /\ Len(send_queue'[s]) = Len(send_queue[s]) - 1
              /\ \A q \in Ranks \ {s} : send_queue'[q] = send_queue[q]
            BY <1>2, <2>3, <3>1
        <3>3. Covered(s)'
            <4>1. /\ Len(send_queue'[s]) = Len(send_queue[s]) + -1
                  /\ Len(recv_queue'[d]) = Len(recv_queue[d]) + 0
                  /\ Len(control'[d]) = Len(control[d]) + 0
                BY <1>3, <1>4, <2>1, <3>2
            <4>2. 0 \in -1..1 /\ -1 \in -1..1 /\ -1 + 0 <= 0
                OBVIOUS
            <4> QED
                BY <4>1, <4>2, CoveredStep
        <3> QED
            BY <1>4, <2>1, <3>2, <3>3, CoveredStable
    <2> QED
        BY <2>1, <2>2, <2>3
<1>7. CASE Acknowledge(s) \/ BreakLink(s)
    BY <1>7, CoveredStable DEF Acknowledge, BreakLink
<1> QED
    BY <1>5, <1>6, <1>7

-----------------------------------------------------------------------------
(* A rank's step keeps its own requests in hand.                             *)

LEMMA HeldStable ==
    ASSUME NEW q, HeldAt(q), pending_requests'[q] = pending_requests[q],
           recv_requests'[q] = recv_requests[q], send_requests'[q] = send_requests[q],
           returned'[q] = returned[q], pc'[q] = pc[q], piece'[q] = piece[q],
           batch'[q] = batch[q]
    PROVE  HeldAt(q)'
<1>1. Kept(q)'
    BY DEF HeldAt, Kept, Held, Unfailed, LastStatus
<1>2. InBatch(q)'
    BY DEF HeldAt, InBatch, BeginPiece
<1>3. Bounded(q)'
    BY DEF HeldAt, Bounded, OfKind
<1> QED
    BY <1>1, <1>2, <1>3 DEF HeldAt

\* A call that returns waits for nothing any more.
LEMMA ReturnHeld ==
    ASSUME TypeInv, NEW r \in Ranks, NEW status, Return(r, status), Bounded(r),
           pending_requests'[r] \subseteq pending_requests[r],
           Unfailed(r)' => pending_requests'[r] = {}
    PROVE  HeldAt(r)'
<1>1. recv_requests'[r] = <<>> /\ send_requests'[r] = <<>> /\ pc'[r] = "idle"
    BY DEF Return, Goto, TypeInv, TypeOK, TypeOKProgram
<1>2. Kept(r)'
    BY <1>1, NamedEmpty DEF Kept, Held
<1>3. InBatch(r)'
    BY <1>1, ConfigTypes DEF InBatch
<1>4. Bounded(r)'
    BY BoundedShrinks
<1> QED
    BY <1>2, <1>3, <1>4 DEF HeldAt

LEMMA ReturnErrorHeld ==
    ASSUME TypeInv, NEW r \in Ranks, NEW status \in Statuses, status # PG_SUCCESS,
           ReturnError(r, status), Bounded(r),
           pending_requests'[r] \subseteq pending_requests[r]
    PROVE  HeldAt(r)'
<1>1. Return(r, status)
    BY DEF ReturnError
<1>2. ~Unfailed(r)'
    BY <1>1, ReturnFails
<1> QED
    BY <1>1, <1>2, ReturnHeld

\* A new request is pending and waited for.
LEMMA PostHeld ==
    ASSUME NEW S, NEW posted \in S, NEW list \in Seq(S), NEW pending, NEW other,
           NEW state, posted["request"] = state, state \notin pending,
           NoneTwice(list, "request"), pending = Named(list, "request") \cup other
    PROVE  /\ NoneTwice(Append(list, posted), "request")
           /\ Named(Append(list, posted), "request") = Named(list, "request") \cup {state}
           /\ pending \cup {state} = Named(Append(list, posted), "request") \cup other
BY NamedAppend

\* Inside a batch no more requests are posted than it has pieces.
LEMMA BatchRoom ==
    ASSUME TypeInv, NEW r \in Ranks, NEW length \in Nat,
           length <= piece[r] - BeginPiece(r), NEW pieces \in Nat,
           piece[r] < LeastOf(EndPiece(r), pieces), piece'[r] = piece[r] + 1,
           batch'[r] = batch[r]
    PROVE  length + 1 <= batch_capacity(r) /\ length + 1 <= piece'[r] - BeginPiece(r)'
<1>1. piece[r] \in Nat /\ batch_capacity(r) \in Nat /\ BeginPiece(r) \in Nat
    <2>1. batch[r] \in Nat /\ piece[r] \in Nat
        BY DEF TypeInv, TypeOK, TypeOKProgram
    <2> QED
        BY <2>1, ConfigTypes, ProductInNat DEF BeginPiece
<1>2. EndPiece(r) \in Nat /\ EndPiece(r) = BeginPiece(r) + batch_capacity(r)
    BY <1>1 DEF EndPiece
<1>3. piece[r] < EndPiece(r)
    BY <1>1, <1>2 DEF LeastOf
<1>4. BeginPiece(r)' = BeginPiece(r)
    BY DEF BeginPiece
<1> QED
    BY <1>1, <1>2, <1>3, <1>4

\* The receive of a piece joins what the call waits for.
LEMMA RecvPostedHeld ==
    ASSUME TypeInv, TypeInv', NEW r \in Ranks, Holding(r), RecvToPost(r),
           NEW state \in RequestStates, state.kind = "recv",
           state \notin pending_requests[r], RecvPosted(r, state),
           pending_requests'[r] = pending_requests[r] \cup {state}
    PROVE  HeldAt(r)'
<1> DEFINE S == PostedRequests(RequestStates)
           posted == PostedRequest(state, PieceOffset(r), PieceLength(r, RecvBlock(r)))
           list  == recv_requests[r]
           other == Named(send_requests[r], "request")
<1>1. TypeInv /\ Kept(r) /\ InBatch(r)
    BY DEF Holding, HeldAt
<1>2. posted \in S /\ posted["request"] = state
    BY <1>1, PostedRegions DEF TypeInv, TypeOK, ProgramOK, PostedRequest, PostedRequests
<1>3. recv_requests' = [recv_requests EXCEPT ![r] = Append(@, posted)]
    BY DEF RecvPosted
<1> HIDE DEF posted
<1>4. /\ list \in Seq(S) /\ Len(list) \in Nat
      /\ recv_requests'[r] = Append(list, posted) /\ Len(recv_requests'[r]) = Len(list) + 1
    <2>1. recv_requests \in [Ranks -> Seq(S)]
        BY <1>1 DEF TypeInv, TypeOK, TypeOKProgram
    <2>2. recv_requests'[r] = Append(list, posted)
        BY <1>3, <2>1
    <2> QED
        BY <1>2, <2>1, <2>2
<1>5. /\ send_requests' = send_requests /\ returned' = returned /\ pc' = pc
      /\ piece'[r] = piece[r] + 1 /\ batch'[r] = batch[r] /\ pc[r] = "postRecv"
    BY <1>1 DEF TypeInv, TypeOK, TypeOKProgram, RecvPosted, RecvToPost
<1>6. Unfailed(r) /\ Unfailed(r)'
    BY <1>5 DEF Holding, FailedStaysOut, Unfailed, LastStatus
<1>7. /\ pending_requests[r] = Named(list, "request") \cup other
      /\ NoneTwice(list, "request")
    BY <1>1, <1>6 DEF Kept, Held
<1>8. /\ NoneTwice(recv_requests'[r], "request")
      /\ Named(recv_requests'[r], "request") = Named(list, "request") \cup {state}
      /\ pending_requests'[r] = Named(recv_requests'[r], "request") \cup other
    BY <1>2, <1>4, <1>7, PostHeld
<1>9. Kept(r)'
    BY <1>1, <1>5, <1>8 DEF Kept, Held
<1>10. InBatch(r)'
    <2>1. Len(list) <= piece[r] - BeginPiece(r)
        BY <1>1, <1>5 DEF InBatch
    <2>2. RecvPieces(r) \in Nat /\ piece[r] < LeastOf(EndPiece(r), RecvPieces(r))
        <3>1. ProgramOK
            BY DEF TypeInv, TypeOK, ProgramOK
        <3>2. piece[r] < LeastOf(EndPiece(r), RecvPieces(r))
            BY DEF RecvToPost
        <3> QED
            BY <3>1, <3>2, BlockPieces
    <2>3. /\ Len(recv_requests'[r]) <= batch_capacity(r)
          /\ Len(recv_requests'[r]) <= piece'[r] - BeginPiece(r)'
        BY <1>1, <1>4, <1>5, <2>1, <2>2, BatchRoom
    <2> QED
        BY <1>1, <1>5, <2>3 DEF InBatch
<1>11. Bounded(r)'
    <2>1. /\ recv_requests'[r] \in Seq(S) /\ send_requests'[r] \in Seq(S)
        BY DEF TypeInv, TypeOK, TypeOKProgram
    <2>2. /\ Len(recv_requests'[r]) <= batch_capacity(r)
          /\ Len(send_requests'[r]) <= batch_capacity(r)
        BY <1>10 DEF InBatch
    <2>3. ASSUME NEW k \in {"recv", "send"}
          PROVE  /\ IsFiniteSet(OfKind(pending_requests'[r], k))
                 /\ Cardinality(OfKind(pending_requests'[r], k))
                      <= batch_capacity(r)
        <3>1. /\ \A q \in Named(recv_requests'[r], "request") : q.kind = "recv"
              /\ \A q \in Named(send_requests'[r], "request") : q.kind = "send"
              /\ pending_requests'[r] = Named(recv_requests'[r], "request")
                                          \cup Named(send_requests'[r], "request")
            BY <1>6, <1>9 DEF Kept, Held
        <3> DEFINE recvs == recv_requests'[r]
                   sends == send_requests'[r]
                   pending == pending_requests'[r]
        <3>2. /\ recvs \in Seq(S) /\ sends \in Seq(S)
              /\ Len(recvs) <= batch_capacity(r) /\ Len(sends) <= batch_capacity(r)
              /\ \A q \in Named(recvs, "request") : q.kind = "recv"
              /\ \A q \in Named(sends, "request") : q.kind = "send"
              /\ pending = Named(recvs, "request") \cup Named(sends, "request")
            BY <2>1, <2>2, <3>1
        <3> HIDE DEF S, recvs, sends, pending
        <3>3. /\ IsFiniteSet(OfKind(pending, k))
              /\ Cardinality(OfKind(pending, k)) <= batch_capacity(r)
            BY <3>2, BoundedByBatch
        <3> QED
            BY <3>3 DEF pending
    <2> QED
        BY <2>3 DEF Bounded
<1> QED
    BY <1>9, <1>10, <1>11 DEF HeldAt

\* So does its send.
LEMMA SendPostedHeld ==
    ASSUME TypeInv, TypeInv', NEW r \in Ranks, Holding(r), SendToPost(r),
           NEW state \in RequestStates, state.kind = "send",
           state \notin pending_requests[r], SendPosted(r, state),
           pending_requests'[r] = pending_requests[r] \cup {state}
    PROVE  HeldAt(r)'
<1> DEFINE S == PostedRequests(RequestStates)
           posted == PostedRequest(state, PieceOffset(r), PieceLength(r, SendBlock(r)))
           list  == send_requests[r]
           other == Named(recv_requests[r], "request")
<1>1. TypeInv /\ Kept(r) /\ InBatch(r)
    BY DEF Holding, HeldAt
<1>2. posted \in S /\ posted["request"] = state
    BY <1>1, PostedRegions DEF TypeInv, TypeOK, ProgramOK, PostedRequest, PostedRequests
<1>3. send_requests' = [send_requests EXCEPT ![r] = Append(@, posted)]
    BY DEF SendPosted
<1> HIDE DEF posted
<1>4. /\ list \in Seq(S) /\ Len(list) \in Nat
      /\ send_requests'[r] = Append(list, posted) /\ Len(send_requests'[r]) = Len(list) + 1
    <2>1. send_requests \in [Ranks -> Seq(S)]
        BY <1>1 DEF TypeInv, TypeOK, TypeOKProgram
    <2>2. send_requests'[r] = Append(list, posted)
        BY <1>3, <2>1
    <2> QED
        BY <1>2, <2>1, <2>2
<1>5. /\ recv_requests' = recv_requests /\ returned' = returned /\ pc' = pc
      /\ piece'[r] = piece[r] + 1 /\ batch'[r] = batch[r] /\ pc[r] = "postSend"
    BY <1>1 DEF TypeInv, TypeOK, TypeOKProgram, SendPosted, SendToPost
<1>6. Unfailed(r) /\ Unfailed(r)'
    BY <1>5 DEF Holding, FailedStaysOut, Unfailed, LastStatus
<1>7. /\ pending_requests[r] = Named(list, "request") \cup other
      /\ NoneTwice(list, "request")
    BY <1>1, <1>6 DEF Kept, Held
<1>8. /\ NoneTwice(send_requests'[r], "request")
      /\ Named(send_requests'[r], "request") = Named(list, "request") \cup {state}
      /\ pending_requests'[r] = Named(send_requests'[r], "request") \cup other
    BY <1>2, <1>4, <1>7, PostHeld
<1>9. Kept(r)'
    BY <1>1, <1>5, <1>8 DEF Kept, Held
<1>10. InBatch(r)'
    <2>1. Len(list) <= piece[r] - BeginPiece(r)
        BY <1>1, <1>5 DEF InBatch
    <2>2. SendPieces(r) \in Nat /\ piece[r] < LeastOf(EndPiece(r), SendPieces(r))
        <3>1. ProgramOK
            BY DEF TypeInv, TypeOK, ProgramOK
        <3>2. piece[r] < LeastOf(EndPiece(r), SendPieces(r))
            BY DEF SendToPost
        <3> QED
            BY <3>1, <3>2, BlockPieces
    <2>3. /\ Len(send_requests'[r]) <= batch_capacity(r)
          /\ Len(send_requests'[r]) <= piece'[r] - BeginPiece(r)'
        BY <1>1, <1>4, <1>5, <2>1, <2>2, BatchRoom
    <2> QED
        BY <1>1, <1>5, <2>3 DEF InBatch
<1>11. Bounded(r)'
    <2>1. /\ recv_requests'[r] \in Seq(S) /\ send_requests'[r] \in Seq(S)
        BY DEF TypeInv, TypeOK, TypeOKProgram
    <2>2. /\ Len(recv_requests'[r]) <= batch_capacity(r)
          /\ Len(send_requests'[r]) <= batch_capacity(r)
        BY <1>10 DEF InBatch
    <2>3. ASSUME NEW k \in {"recv", "send"}
          PROVE  /\ IsFiniteSet(OfKind(pending_requests'[r], k))
                 /\ Cardinality(OfKind(pending_requests'[r], k))
                      <= batch_capacity(r)
        <3>1. /\ \A q \in Named(recv_requests'[r], "request") : q.kind = "recv"
              /\ \A q \in Named(send_requests'[r], "request") : q.kind = "send"
              /\ pending_requests'[r] = Named(recv_requests'[r], "request")
                                          \cup Named(send_requests'[r], "request")
            BY <1>6, <1>9 DEF Kept, Held
        <3> DEFINE recvs == recv_requests'[r]
                   sends == send_requests'[r]
                   pending == pending_requests'[r]
        <3>2. /\ recvs \in Seq(S) /\ sends \in Seq(S)
              /\ Len(recvs) <= batch_capacity(r) /\ Len(sends) <= batch_capacity(r)
              /\ \A q \in Named(recvs, "request") : q.kind = "recv"
              /\ \A q \in Named(sends, "request") : q.kind = "send"
              /\ pending = Named(recvs, "request") \cup Named(sends, "request")
            BY <2>1, <2>2, <3>1
        <3> HIDE DEF S, recvs, sends, pending
        <3>3. /\ IsFiniteSet(OfKind(pending, k))
              /\ Cardinality(OfKind(pending, k)) <= batch_capacity(r)
            BY <3>2, BoundedByBatch
        <3> QED
            BY <3>3 DEF pending
    <2> QED
        BY <2>3 DEF Bounded
<1> QED
    BY <1>9, <1>10, <1>11 DEF HeldAt

\* A request waited for is neither pending nor waited for any more.
LEMMA RecvConsumedHeld ==
    ASSUME TypeInv, TypeInv', NEW r \in Ranks, Holding(r), pc[r] = "waitRecv",
           recv_requests[r] # <<>>,
           recv_requests' = [recv_requests EXCEPT ![r] = Tail(@)],
           pending_requests'[r] = pending_requests[r] \ {Head(recv_requests[r]).request},
           UNCHANGED <<pc, send_requests, piece, batch, returned>>
    PROVE  HeldAt(r)'
<1> DEFINE S == PostedRequests(RequestStates)
           list  == recv_requests[r]
           rest  == recv_requests'[r]
           state == Head(list)["request"]
           other == Named(send_requests[r], "request")
<1>1. TypeInv /\ Kept(r) /\ InBatch(r) /\ Bounded(r)
    BY DEF Holding, HeldAt
<1>2. list \in Seq(S) /\ rest = Tail(list)
    BY <1>1 DEF TypeInv, TypeOK, TypeOKProgram
<1>3. /\ state \in Named(list, "request")
      /\ Named(list, "request") = Named(rest, "request") \cup {state}
      /\ NoneTwice(list, "request") =>
           NoneTwice(rest, "request") /\ state \notin Named(rest, "request")
    BY <1>2, NamedTail
<1>4. Len(rest) <= Len(list) /\ Len(list) \in Nat /\ Len(rest) \in Nat
    BY <1>2
<1>5. pending_requests'[r] = pending_requests[r] \ {state}
    OBVIOUS
<1> HIDE DEF state
<1>6. state \notin other
    <2>1. "recv" # "send"
        OBVIOUS
    <2> QED
        BY <1>1, <1>3, <2>1 DEF Kept
<1>7. Kept(r)'
    <2>1. Unfailed(r)' => Unfailed(r)
        BY DEF Unfailed, LastStatus
    <2>2. other' = other
        OBVIOUS
    <2> QED
        BY <1>1, <1>3, <1>5, <1>6, <2>1, <2>2 DEF Kept, Held
<1>8. InBatch(r)'
    <2>1. Len(list) <= batch_capacity(r) /\ batch_capacity(r) \in Nat
        BY <1>1, ConfigTypes DEF InBatch
    <2>2. Len(rest) <= batch_capacity(r)
        BY <1>4, <2>1
    <2> QED
        BY <1>1, <2>2 DEF InBatch
<1>9. Bounded(r)'
    BY <1>1, <1>5, BoundedShrinks
<1> QED
    BY <1>7, <1>8, <1>9 DEF HeldAt

LEMMA SendConsumedHeld ==
    ASSUME TypeInv, TypeInv', NEW r \in Ranks, Holding(r), pc[r] = "waitSend",
           send_requests[r] # <<>>,
           send_requests' = [send_requests EXCEPT ![r] = Tail(@)],
           pending_requests'[r] = pending_requests[r] \ {Head(send_requests[r]).request},
           UNCHANGED <<pc, recv_requests, piece, batch, returned>>
    PROVE  HeldAt(r)'
<1> DEFINE S == PostedRequests(RequestStates)
           list  == send_requests[r]
           rest  == send_requests'[r]
           state == Head(list)["request"]
           other == Named(recv_requests[r], "request")
<1>1. TypeInv /\ Kept(r) /\ InBatch(r) /\ Bounded(r)
    BY DEF Holding, HeldAt
<1>2. list \in Seq(S) /\ rest = Tail(list)
    BY <1>1 DEF TypeInv, TypeOK, TypeOKProgram
<1>3. /\ state \in Named(list, "request")
      /\ Named(list, "request") = Named(rest, "request") \cup {state}
      /\ NoneTwice(list, "request") =>
           NoneTwice(rest, "request") /\ state \notin Named(rest, "request")
    BY <1>2, NamedTail
<1>4. Len(rest) <= Len(list) /\ Len(list) \in Nat /\ Len(rest) \in Nat
    BY <1>2
<1>5. pending_requests'[r] = pending_requests[r] \ {state}
    OBVIOUS
<1> HIDE DEF state
<1>6. state \notin other
    <2>1. "recv" # "send"
        OBVIOUS
    <2> QED
        BY <1>1, <1>3, <2>1 DEF Kept
<1>7. Kept(r)'
    <2>1. Unfailed(r)' => Unfailed(r)
        BY DEF Unfailed, LastStatus
    <2>2. other' = other
        OBVIOUS
    <2> QED
        BY <1>1, <1>3, <1>5, <1>6, <2>1, <2>2 DEF Kept, Held
<1>8. InBatch(r)'
    <2>1. Len(list) <= batch_capacity(r) /\ batch_capacity(r) \in Nat
        BY <1>1, ConfigTypes DEF InBatch
    <2>2. Len(rest) <= batch_capacity(r)
        BY <1>4, <2>1
    <2> QED
        BY <1>1, <2>2 DEF InBatch
<1>9. Bounded(r)'
    BY <1>1, <1>5, BoundedShrinks
<1> QED
    BY <1>7, <1>8, <1>9 DEF HeldAt

\* The steps between the calls of the transport.
LEMMA ProceedHeld ==
    ASSUME TypeInv, TypeInv', NEW r \in Ranks, Holding(r), Proceed(r), UNCHANGED verbs_vars
    PROVE  HeldAt(r)'
<1>1. TypeInv /\ Kept(r) /\ InBatch(r) /\ Bounded(r) /\ RecvsInBlock(r)
    BY DEF Holding, HeldAt, TypeInv
<1>2. pending_requests' = pending_requests
    BY DEF verbs_vars
<1>3. pc \in [Ranks -> Locations] /\ piece \in [Ranks -> Nat] /\ BeginPiece(r) \in Nat
    <2>1. pc \in [Ranks -> Locations] /\ piece \in [Ranks -> Nat] /\ batch[r] \in Nat
        BY <1>1 DEF TypeInv, TypeOK, TypeOKProgram
    <2> QED
        BY <2>1, ConfigTypes, ProductInNat DEF BeginPiece
<1>4. CASE RefuseCall(r) \/ TagOutOfRange(r)
    <2>1. PICK status \in Statuses : status # PG_SUCCESS /\ Return(r, status)
        BY <1>4 DEF RefuseCall, TagOutOfRange, ReturnError, Statuses, PG_SUCCESS,
                    PG_ERR_INVALID_ARGUMENT, PG_ERR_UNSUPPORTED_DATATYPE, PG_ERR_TAG_RANGE
    <2>2. ~Unfailed(r)'
        BY <1>1, <2>1, ReturnFails
    <2> QED
        BY <1>1, <1>2, <2>1, <2>2, ReturnHeld
<1>5. CASE ReturnSuccess(r)
    <2>1. Return(r, PG_SUCCESS) /\ pc[r] = "batch"
        BY <1>5 DEF ReturnSuccess
    <2>2. recv_requests[r] = <<>> /\ send_requests[r] = <<>> /\ Unfailed(r)
        BY <1>1, <2>1 DEF RecvsInBlock, InBatch, Holding, FailedStaysOut
    <2>3. pending_requests'[r] = {}
        BY <1>1, <1>2, <2>2, NamedEmpty DEF Kept, Held
    <2> QED
        BY <1>1, <1>2, <2>1, <2>3, ReturnHeld
<1>6. CASE Loop(r) \/ BeginCall(r)
    <2>1. UNCHANGED <<recv_requests, send_requests, returned>>
        BY <1>6 DEF Loop, BeginBatch, NextStep, BeginAllGather, EndPostRecv, EndPostSend,
                    EndWaitRecv, EndBatch, BeginCall
    <2>2. Kept(r)'
        BY <1>1, <1>2, <2>1 DEF Kept, Held, Unfailed, LastStatus
    <2>3. Bounded(r)'
        BY <1>1, <1>2, BoundedShrinks
    <2>4. /\ Len(recv_requests'[r]) <= batch_capacity(r)
          /\ Len(send_requests'[r]) <= batch_capacity(r)
        BY <1>1, <2>1 DEF InBatch
    <2>5. InBatch(r)'
        <3>1. CASE BeginBatch(r)
            <4>1. /\ recv_requests'[r] = <<>> /\ send_requests'[r] = <<>>
                  /\ pc'[r] = "postRecv" /\ piece'[r] = BeginPiece(r)
                  /\ BeginPiece(r)' = BeginPiece(r)
                BY <1>1, <1>3, <2>1, <3>1
                   DEF BeginBatch, Goto, RecvsInBlock, InBatch, BeginPiece
            <4>2. Len(recv_requests'[r]) = 0 /\ 0 <= piece'[r] - BeginPiece(r)'
                BY <1>3, <4>1
            <4> QED
                BY <2>4, <4>1, <4>2 DEF InBatch
        <3>2. CASE EndPostRecv(r)
            <4>1. /\ send_requests'[r] = <<>>
                  /\ pc'[r] = "postSend" /\ piece'[r] = BeginPiece(r)
                  /\ BeginPiece(r)' = BeginPiece(r)
                BY <1>1, <1>3, <2>1, <3>2 DEF EndPostRecv, Goto, InBatch, BeginPiece
            <4>2. Len(send_requests'[r]) = 0 /\ 0 <= piece'[r] - BeginPiece(r)'
                BY <1>3, <4>1
            <4> QED
                BY <2>4, <4>1, <4>2 DEF InBatch
        <3>3. CASE EndPostSend(r) \/ EndWaitRecv(r)
            <4>1. pc'[r] \in {"waitRecv", "waitSend"}
                BY <1>3, <3>3 DEF EndPostSend, EndWaitRecv, Goto
            <4> QED
                BY <2>4, <4>1 DEF InBatch
        <3>4. CASE \/ NextStep(r) \/ BeginAllGather(r)
                   \/ EndBatch(r) \/ BeginCall(r)
            <4>1. pc'[r] = "batch" /\ send_requests[r] = <<>>
                BY <1>1, <1>3, <3>4 DEF NextStep, BeginAllGather, EndBatch, BeginCall,
                                        MayCall, Goto, InBatch
            <4> QED
                BY <2>1, <2>4, <4>1 DEF InBatch
        <3> QED
            BY <1>6, <3>1, <3>2, <3>3, <3>4 DEF Loop
    <2> QED
        BY <2>2, <2>3, <2>5 DEF HeldAt
<1> QED
    BY <1>4, <1>5, <1>6 DEF Proceed, Loop

LEMMA RunHeld ==
    ASSUME TypeInv, TypeInv', NEW r \in Ranks, Holding(r), RunRank(r)
    PROVE  HeldAt(r)'
<1>1. TypeInv /\ Kept(r) /\ InBatch(r) /\ Bounded(r) /\ Tracked(r) /\ HeldAt(r)
    BY DEF Holding, HeldAt
<1>2. ProgramOK /\ TypeOKVerbs
    BY <1>1 DEF TypeInv, TypeOK, ProgramOK
<1>3. /\ PG_ERR_TRANSPORT \in Statuses /\ PG_ERR_TRANSPORT # PG_SUCCESS
      /\ PG_ERR_UNSUPPORTED_OPERATION \in Statuses
      /\ PG_ERR_UNSUPPORTED_OPERATION # PG_SUCCESS
    BY DEF Statuses, PG_SUCCESS, PG_ERR_TRANSPORT, PG_ERR_UNSUPPORTED_OPERATION
<1>4. CASE Proceed(r) /\ UNCHANGED verbs_vars
    BY <1>4, ProceedHeld
<1>5. CASE PostRecv(r)
    <2> DEFINE state == NewRequest(r, "recv", Tag(r), RecvBytes(r), transfer_mode(r))
    <2>1. CASE post_receive_throws(r) /\ ReturnError(r, PG_ERR_TRANSPORT)
        BY <1>1, <1>3, <2>1, ReturnErrorHeld DEF post_receive_throws
    <2>2. CASE /\ post_receive_previous(r, RecvRegion(r), RecvBytes(r), Tag(r), transfer_mode(r))
               /\ RecvPosted(r, state)
        <3>1. RecvToPost(r) /\ RecvBytes(r) \in Nat /\ Tag(r) \in Nat
            BY <1>2, <1>5, PostedRegions, TagTypes DEF PostRecv
        <3>2. /\ state \in RequestStates /\ state.kind = "recv"
              /\ state.id = next_request_id[r]
            BY <1>2, <3>1, NewRequestType DEF NewRequest, RequestState
        <3>3. pending_requests' = [pending_requests EXCEPT ![r] = @ \cup {state}]
            BY <2>2 DEF post_receive_previous
        <3> HIDE DEF state
        <3>4. pending_requests'[r] = pending_requests[r] \cup {state}
            BY <1>2, <3>3 DEF TypeOKVerbs
        <3>5. state \notin pending_requests[r]
            BY <1>1, <1>2, <3>2 DEF Tracked, TypeOKVerbs
        <3> QED
            BY <2>2, <3>1, <3>2, <3>4, <3>5, RecvPostedHeld
    <2> QED
        BY <1>5, <2>1, <2>2 DEF PostRecv
<1>6. CASE PostSend(r)
    <2> DEFINE state == NewRequest(r, "send", Tag(r), SendBytes(r), transfer_mode(r))
    <2>1. CASE /\ post_send_throws(r, SendBytes(r), Tag(r), transfer_mode(r))
               /\ ReturnError(r, PG_ERR_TRANSPORT)
        BY <1>1, <1>3, <2>1, ReturnErrorHeld DEF post_send_throws
    <2>2. CASE /\ post_send_next(r, SendRegion(r), SendBytes(r), Tag(r), transfer_mode(r))
               /\ SendPosted(r, state)
        <3>1. SendToPost(r) /\ SendBytes(r) \in Nat /\ Tag(r) \in Nat
            BY <1>2, <1>6, PostedRegions, TagTypes DEF PostSend
        <3>2. /\ state \in RequestStates /\ state.kind = "send"
              /\ state.id = next_request_id[r]
            BY <1>2, <3>1, NewRequestType DEF NewRequest, RequestState
        <3>3. pending_requests' = [pending_requests EXCEPT ![r] = @ \cup {state}]
            BY <2>2 DEF post_send_next
        <3> HIDE DEF state
        <3>4. pending_requests'[r] = pending_requests[r] \cup {state}
            BY <1>2, <3>3 DEF TypeOKVerbs
        <3>5. state \notin pending_requests[r]
            BY <1>1, <1>2, <3>2 DEF Tracked, TypeOKVerbs
        <3> QED
            BY <2>2, <3>1, <3>2, <3>4, <3>5, SendPostedHeld
    <2> QED
        BY <1>6, <2>1, <2>2 DEF PostSend
<1>7. CASE Poll(r)
    BY <1>1, <1>7, HeldStable DEF Poll, handle_completion, program_vars
<1>8. CASE PollFails(r)
    BY <1>1, <1>3, <1>8, ReturnErrorHeld DEF PollFails, verbs_vars
<1>9. CASE Wait(r)
    <2>1. PICK state \in Awaited(r) :
            /\ consume_request(r, state)
            /\ \/ RecvWaited(r) \/ OperationUnsupported(r) \/ SendWaited(r)
               \/ ReturnError(r, PG_ERR_TRANSPORT)
        BY <1>9 DEF Wait
    <2>2. pending_requests'[r] = pending_requests[r] \ {state}
        BY <1>2, <2>1 DEF consume_request, TypeOKVerbs
    <2>3. CASE RecvWaited(r)
        <3>1. /\ pc[r] = "waitRecv" /\ recv_requests[r] # <<>>
              /\ recv_requests' = [recv_requests EXCEPT ![r] = Tail(@)]
              /\ UNCHANGED <<pc, send_requests, piece, batch, returned>>
            BY <2>3 DEF RecvWaited
        <3>2. state = Head(recv_requests[r]).request
            BY <2>1, <3>1 DEF Awaited
        <3> QED
            BY <2>2, <3>1, <3>2, RecvConsumedHeld
    <2>4. CASE SendWaited(r)
        <3>1. /\ pc[r] = "waitSend" /\ send_requests[r] # <<>>
              /\ send_requests' = [send_requests EXCEPT ![r] = Tail(@)]
              /\ UNCHANGED <<pc, recv_requests, piece, batch, returned>>
            BY <2>4 DEF SendWaited
        <3>2. state = Head(send_requests[r]).request
            BY <2>1, <3>1 DEF Awaited
        <3> QED
            BY <2>2, <3>1, <3>2, SendConsumedHeld
    <2>5. CASE OperationUnsupported(r) \/ ReturnError(r, PG_ERR_TRANSPORT)
        BY <1>1, <1>3, <2>2, <2>5, ReturnErrorHeld DEF OperationUnsupported
    <2> QED
        BY <2>1, <2>3, <2>4, <2>5
<1> QED
    BY <1>4, <1>5, <1>6, <1>7, <1>8, <1>9 DEF RunRank

LEMMA InitHeld == Init => HeldInv
<1> SUFFICES ASSUME Init PROVE HeldInv
    OBVIOUS
<1>1. ASSUME NEW r \in Ranks PROVE Covered(r) /\ HeldAt(r)
    <2>1. /\ pending_requests[r] = {} /\ recv_requests[r] = <<>> /\ send_requests[r] = <<>>
          /\ send_queue[r] = <<>> /\ pc[r] = "idle"
        BY <1>1 DEF Init, InitVerbs, InitProgram
    <2>2. recv_queue[NextRank(r)] = <<>> /\ control[NextRank(r)] = <<>>
        BY RankFacts DEF Init, InitVerbs
    <2>3. Covered(r)
        BY <2>1, <2>2 DEF Covered
    <2>4. Kept(r) /\ InBatch(r)
        BY <2>1, NamedEmpty, ConfigTypes DEF Kept, Held, InBatch
    <2>5. OfKind({}, "recv") = {} /\ OfKind({}, "send") = {}
        BY DEF OfKind
    <2>6. IsFiniteSet({}) /\ Cardinality({}) = 0 /\ 0 <= batch_capacity(r)
        BY FS_EmptySet, ConfigTypes
    <2>7. Bounded(r)
        BY <2>1, <2>5, <2>6 DEF Bounded
    <2> QED
        BY <2>3, <2>4, <2>7 DEF HeldAt
<1> QED
    BY <1>1, InitLinks, InitTracked DEF HeldInv, TrackedInv

LEMMA NextHeld ==
    ASSUME ContinueAfterError = FALSE
    PROVE  HeldInv /\ [Next]_vars => HeldInv'
<1> SUFFICES ASSUME HeldInv, [Next]_vars PROVE HeldInv'
    OBVIOUS
<1>1. TrackedInv /\ TypeOKVerbs /\ TypeInv
    BY DEF HeldInv, LinkInv, TrackedInv, TypeInv, TypeOK
<1>2. LinkInv' /\ TrackedInv' /\ TypeInv'
    BY <1>1, NextLinks, NextTracked DEF HeldInv, LinkInv
<1>3. ASSUME NEW r \in Ranks, RunRank(r)
      PROVE  \A q \in Ranks : Covered(q)' /\ HeldAt(q)'
    <2>1. \A q \in Ranks : Covered(q)'
        BY <1>1, <1>3, RunCovered DEF HeldInv
    <2>2. HeldAt(r)'
        BY <1>1, <1>2, <1>3, RunHeld DEF HeldInv, LinkInv, Holding
    <2>3. ASSUME NEW q \in Ranks \ {r} PROVE HeldAt(q)'
        BY <1>1, <1>3, RunOthers, HeldStable
           DEF HeldInv, ProgramOthers, VerbsOthers, SameRequests
    <2> QED
        BY <2>1, <2>2, <2>3
<1>4. ASSUME NEW s \in Ranks, Fabric(s)
      PROVE  \A q \in Ranks : Covered(q)' /\ HeldAt(q)'
    <2>1. \A q \in Ranks : Covered(q)'
        BY <1>1, <1>4, FabricCovered DEF HeldInv, Fabric
    <2>2. UNCHANGED <<program_vars, pending_requests>>
        BY <1>4 DEF Fabric, Deliver, Acknowledge, BreakLink, FlushSend
    <2> QED
        BY <2>1, <2>2, HeldStable DEF HeldInv, program_vars
<1>5. ASSUME UNCHANGED vars
      PROVE  \A q \in Ranks : Covered(q)' /\ HeldAt(q)'
    <2>1. UNCHANGED <<program_vars, send_queue, recv_queue, control, pending_requests>>
        BY <1>5 DEF vars, verbs_vars
    <2>2. \A q \in Ranks : Covered(q)'
        BY <2>1, CoveredStable DEF HeldInv
    <2>3. \A q \in Ranks : HeldAt(q)'
        BY <2>1, HeldStable DEF HeldInv, program_vars
    <2> QED
        BY <2>2, <2>3
<1>6. \A q \in Ranks : Covered(q)' /\ HeldAt(q)'
    <2>1. CASE Next
        BY <1>3, <1>4, <1>5, <2>1 DEF Next, Finished
    <2> QED
        BY <1>5, <2>1
<1> QED
    BY <1>2, <1>6 DEF HeldInv, TrackedInv

LEMMA PrevRankFacts ==
    ASSUME NEW r \in Ranks
    PROVE  PrevRank(r) \in Ranks /\ NextRank(PrevRank(r)) = r
<1>1. r \in Nat /\ r < WorldSize /\ WorldSize \in Nat /\ WorldSize >= 2
    BY WorldAssumption DEF Ranks
<1>2. CASE r = 0
    <2>1. PrevRank(r) = WorldSize - 1
        <3>1. r - 1 + WorldSize = WorldSize - 1 /\ WorldSize - 1 \in Nat
            BY <1>1, <1>2
        <3> QED
            BY <1>1, <3>1, SmallMod DEF PrevRank
    <2>2. (WorldSize - 1) + 1 = WorldSize
        BY <1>1
    <2> QED
        BY <1>1, <1>2, <2>1, <2>2, SmallMod DEF NextRank, Ranks
<1>3. CASE r # 0
    <2>1. PrevRank(r) = r - 1
        <3>1. r - 1 + WorldSize = WorldSize + (r - 1) /\ r - 1 \in Nat /\ r - 1 < WorldSize
            BY <1>1, <1>3
        <3> QED
            BY <1>1, <3>1, SMT DEF PrevRank
    <2>2. (r - 1) + 1 = r
        BY <1>1
    <2> QED
        BY <1>1, <1>3, <2>1, <2>2, SmallMod DEF NextRank, Ranks
<1> QED
    BY <1>2, <1>3

\* When the application gives up after a failed call, a rank whose calls all
\* succeeded leaves nothing behind between them: no request, work request,
\* completion or descriptor the next call could meet (ring_reduce_scatter_inplace,
\* ring_all_gather_inplace: wait for all requests of the batch).
THEOREM CallsLeaveNothing ==
    ASSUME ContinueAfterError = FALSE
    PROVE  Spec => []QuiescentAfterSuccess
<1>1. ASSUME HeldInv PROVE QuiescentAfterSuccess
    <2>1. ASSUME NEW r \in Ranks, pc[r] = "idle", Unfailed(r)
          PROVE  /\ pending_requests[r] = {}
                 /\ recv_queue[r] = <<>> /\ send_queue[r] = <<>>
                 /\ unacknowledged[r] = <<>> /\ cq[r] = <<>>
                 /\ control[r] = <<>>
        <3>1. Tracked(r) /\ Kept(r) /\ InBatch(r) /\ RecvsInBlock(r) /\ TypeOKVerbs
            BY <1>1 DEF HeldInv, HeldAt, LinkInv, TypeInv, TypeOK
        <3>2. pending_requests[r] = {}
            BY <2>1, <3>1, NamedEmpty DEF Kept, Held, InBatch, RecvsInBlock
        <3>3. /\ Named(recv_queue[r], "wr_id") = {} /\ Named(send_queue[r], "wr_id") = {}
              /\ Named(unacknowledged[r], "wr_id") = {} /\ Named(cq[r], "wr_id") = {}
            BY <3>1, <3>2 DEF Tracked, Receiving, Sending, Acknowledged, Completing
        <3>4. /\ recv_queue[r] \in Seq(RecvWrs) /\ send_queue[r] \in Seq(SendWrs)
              /\ unacknowledged[r] \in Seq(SendWrs) /\ cq[r] \in Seq(Completions)
            BY <3>1 DEF TypeOKVerbs
        <3>5. /\ recv_queue[r] = <<>> /\ send_queue[r] = <<>>
              /\ unacknowledged[r] = <<>> /\ cq[r] = <<>>
            BY <3>3, <3>4, NamedNothing
        <3>6. Covered(PrevRank(r)) /\ NextRank(PrevRank(r)) = r /\ PrevRank(r) \in Ranks
            BY <1>1, PrevRankFacts DEF HeldInv
        <3>7. /\ Len(send_queue[PrevRank(r)]) \in Nat /\ Len(control[r]) \in Nat
              /\ Len(send_queue[PrevRank(r)]) + Len(control[r]) <= Len(recv_queue[r])
            BY <3>1, <3>6, CoveredLengths DEF Covered
        <3>8. Len(control[r]) = 0 /\ control[r] \in Seq(ControlMessages)
            BY <3>1, <3>5, <3>7 DEF TypeOKVerbs
        <3> QED
            BY <3>2, <3>5, <3>8, EmptySeq
    <2> QED
        BY <2>1 DEF QuiescentAfterSuccess
<1> QED
    BY <1>1, InitHeld, NextHeld, PTL DEF Spec

\* Under the same assumption max_inflight bounds what a rank has in flight,
\* whatever fails and for however many calls: work requests of each kind, unread
\* descriptors, and completions in the queue both QPs share
\* (ring_collectives.h:40).
THEOREM QueuesBounded ==
    ASSUME ContinueAfterError = FALSE
    PROVE  Spec => []InflightBounded
<1>1. ASSUME HeldInv PROVE InflightBounded
    <2>1. ASSUME NEW r \in Ranks
          PROVE  /\ \A kind \in {"recv", "send"} :
                        Cardinality(OfKind(pending_requests[r], kind)) <= batch_capacity(r)
                 /\ Len(control[r]) <= batch_capacity(r)
                 /\ Len(cq[r]) <= 2 * batch_capacity(r)
        <3> DEFINE recvs == OfKind(pending_requests[r], "recv")
                   sends == OfKind(pending_requests[r], "send")
        <3>1. Tracked(r) /\ Bounded(r) /\ TypeOKVerbs /\ batch_capacity(r) \in Nat
            BY <1>1, ConfigTypes DEF HeldInv, HeldAt, LinkInv, TypeInv, TypeOK
        <3>2. /\ IsFiniteSet(recvs) /\ Cardinality(recvs) <= batch_capacity(r)
              /\ IsFiniteSet(sends) /\ Cardinality(sends) <= batch_capacity(r)
            BY <3>1 DEF Bounded
        <3>3. /\ recv_queue[r] \in Seq(RecvWrs) /\ cq[r] \in Seq(Completions)
              /\ pending_requests[r] \in SUBSET RequestStates
            BY <3>1 DEF TypeOKVerbs
        <3>4. /\ Named(recv_queue[r], "wr_id") \subseteq recvs
              /\ NoneTwice(recv_queue[r], "wr_id")
            BY <3>1 DEF Tracked, Receiving, OfKind
        <3>5. pending_requests[r] = recvs \cup sends
            BY <3>3 DEF OfKind, RequestStates
        <3>6. /\ Named(cq[r], "wr_id") \subseteq recvs \cup sends
              /\ NoneTwice(cq[r], "wr_id")
            BY <3>1, <3>5 DEF Tracked, Completing
        <3> HIDE DEF recvs, sends
        <3>7. /\ IsFiniteSet(recvs \cup sends)
              /\ Cardinality(recvs \cup sends) <= Cardinality(recvs) + Cardinality(sends)
              /\ Cardinality(recvs) \in Nat /\ Cardinality(sends) \in Nat
              /\ Cardinality(recvs \cup sends) \in Nat
            <4>1. /\ IsFiniteSet(recvs \cup sends)
                  /\ Cardinality(recvs \cup sends) =
                       Cardinality(recvs) + Cardinality(sends) - Cardinality(recvs \cap sends)
                BY <3>2, FS_Union
            <4>2. IsFiniteSet(recvs \cap sends)
                BY <3>2, FS_Subset
            <4>3. /\ Cardinality(recvs) \in Nat /\ Cardinality(sends) \in Nat
                  /\ Cardinality(recvs \cup sends) \in Nat
                  /\ Cardinality(recvs \cap sends) \in Nat
                BY <3>2, <4>1, <4>2, FS_CardinalityType
            <4> QED
                BY <4>1, <4>3
        <3>8. /\ Len(recv_queue[r]) <= Cardinality(recvs)
              /\ Len(cq[r]) <= Cardinality(recvs \cup sends)
            BY <3>2, <3>3, <3>4, <3>6, <3>7, NamedFits
        <3>9. Covered(PrevRank(r)) /\ NextRank(PrevRank(r)) = r /\ PrevRank(r) \in Ranks
            BY <1>1, PrevRankFacts DEF HeldInv
        <3>10. /\ Len(send_queue[PrevRank(r)]) \in Nat /\ Len(control[r]) \in Nat
               /\ Len(recv_queue[r]) \in Nat
            BY <3>1, <3>9, CoveredLengths
        <3>11. Len(send_queue[PrevRank(r)]) + Len(control[r]) <= Len(recv_queue[r])
            BY <3>9 DEF Covered
        <3>12. Len(control[r]) <= batch_capacity(r)
            <4>1. Len(control[r]) <= Len(recv_queue[r])
                <5>1. ASSUME NEW a \in Nat, NEW b \in Nat, NEW c \in Nat, a + b <= c
                      PROVE  b <= c
                    BY <5>1
                <5> QED
                    BY <3>10, <3>11, <5>1, Zenon
            <4>2. Len(recv_queue[r]) <= batch_capacity(r)
                BY <3>1, <3>2, <3>7, <3>8, <3>10
            <4> QED
                BY <3>1, <3>10, <4>1, <4>2
        <3>13. Len(cq[r]) \in Nat
            BY <3>3
        <3>14. Cardinality(recvs \cup sends) <= 2 * batch_capacity(r)
            BY <3>1, <3>2, <3>7
        <3>15. Len(cq[r]) <= 2 * batch_capacity(r)
            BY <3>1, <3>7, <3>8, <3>13, <3>14
        <3> QED
            BY <3>1, <3>12, <3>15 DEF Bounded
    <2> QED
        BY <2>1 DEF InflightBounded, OfKind
<1> QED
    BY <1>1, InitHeld, NextHeld, PTL DEF Spec

=============================================================================
