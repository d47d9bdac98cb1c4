--------------------------- MODULE RingCollective ---------------------------
(* The program of one rank: ring_all_reduce, made of                         *)
(* ring_reduce_scatter_inplace and ring_all_gather_inplace, the same loops   *)
(* over steps and batches with different blocks and buffers.                 *)
(*                                                                           *)
(* The operators at the end are the program's half of each step.  A module   *)
(* that composes ranks with a transport conjoins them with the transport's   *)
(* half (VerbsRing does, with VerbsTransport).                               *)
EXTENDS RankMemory, RingSchedule

CONSTANTS
    ElementSize,         \* datatype_size(datatype)
    Config,              \* Config[r], the ring_collective_config_t rank r was given
    kDefaultPieceBytes,
    kDefaultMaxInflight,
    kMaxInflightLimit,
    Calls,               \* Calls[c], the kind of the application's c-th call
    FirstSequence,       \* context->sequence when the model starts
    ContinueAfterError   \* the application calls again after a failed call

CallKinds == {"valid", "invalid_argument", "bad_datatype", "bad_operation"}

ASSUME CollectiveAssumption ==
    /\ ElementSize \in Nat \ {0}
    /\ kDefaultPieceBytes \in Nat \ {0}
    /\ kDefaultMaxInflight \in Nat \ {0}
    /\ kMaxInflightLimit \in Nat \ {0}
    /\ \A r \in Ranks : /\ Config[r].pipeline_piece_bytes \in Nat
                        /\ Config[r].max_inflight \in Nat
    /\ Calls \in Seq(CallKinds)
    /\ FirstSequence \in Nat
    /\ ContinueAfterError \in BOOLEAN

VARIABLES
    pc,             \* where rank r is: "idle" between calls, else a loop below
    phase,          \* ReduceScatter or AllGather
    step,           \* ring step of the phase
    batch,          \* batch of the step
    piece,          \* loop variable of the posting loops
    sequence,       \* context->sequence
    recv_requests,  \* receives of the batch still to wait for
    send_requests,  \* sends of the batch still to wait for
    calls,          \* calls begun or refused
    returned        \* history: status and recvbuf of every call that returned

program_vars == <<pc, phase, step, batch, piece, sequence, recv_requests,
                  send_requests, calls, returned>>

Locations == {"idle", "batch", "postRecv", "postSend", "waitRecv", "waitSend"}

PG_SUCCESS                   == "PG_SUCCESS"
PG_ERR_INVALID_ARGUMENT      == "PG_ERR_INVALID_ARGUMENT"
PG_ERR_TRANSPORT             == "PG_ERR_TRANSPORT"
PG_ERR_UNSUPPORTED_DATATYPE  == "PG_ERR_UNSUPPORTED_DATATYPE"
PG_ERR_UNSUPPORTED_OPERATION == "PG_ERR_UNSUPPORTED_OPERATION"
PG_ERR_TAG_RANGE             == "PG_ERR_TAG_RANGE"

Statuses == {PG_SUCCESS, PG_ERR_INVALID_ARGUMENT, PG_ERR_TRANSPORT,
             PG_ERR_UNSUPPORTED_DATATYPE, PG_ERR_UNSUPPORTED_OPERATION,
             PG_ERR_TAG_RANGE}

-----------------------------------------------------------------------------
(* What a rank derives from its context.                                     *)

\* ring_collective_create replaces zeros by defaults and caps max_inflight.
ContextConfig(config) ==
    [pipeline_piece_bytes |->
        IF config.pipeline_piece_bytes = 0 THEN kDefaultPieceBytes
                                           ELSE config.pipeline_piece_bytes,
     max_inflight |->
        IF config.max_inflight = 0 THEN kDefaultMaxInflight
        ELSE LeastOf(config.max_inflight, kMaxInflightLimit),
     transfer_mode |-> config.transfer_mode]

transfer_mode(r)  == ContextConfig(Config[r]).transfer_mode
batch_capacity(r) == ContextConfig(Config[r]).max_inflight
piece_elements(r) ==
    piece_elements_for(ContextConfig(Config[r]).pipeline_piece_bytes, ElementSize)

SendBlock(r) == send_block(r, WorldSize, phase[r], step[r])
RecvBlock(r) == recv_block(r, WorldSize, phase[r], step[r])

BlockCount(block)  == layout_count(Count, WorldSize, block)
BlockOffset(block) == layout_offset(Count, WorldSize, block)

SendPieces(r) == piece_count_for(BlockCount(SendBlock(r)), piece_elements(r))
RecvPieces(r) == piece_count_for(BlockCount(RecvBlock(r)), piece_elements(r))
TotalBatches(r) == batch_count_for(SendPieces(r), RecvPieces(r), batch_capacity(r))

BeginPiece(r) == batch[r] * batch_capacity(r)
\* Mistake: one piece too many in a batch.
EndPiece_inclusive(r) == BeginPiece(r) + batch_capacity(r) + 1
EndPiece(r)   == BeginPiece(r) + batch_capacity(r)

\* The elements of the piece the posting loop of rank r is at, in a block.
PieceOffset(r)        == piece[r] * piece_elements(r)
PieceLength(r, block) == piece_length(BlockCount(block), piece_elements(r), piece[r])

\* Reduce-Scatter receives aside, All-Gather in place.
RecvRegion(r) ==
    IF phase[r] = ReduceScatter
    THEN Region("temporary_buffer", PieceOffset(r), PieceLength(r, RecvBlock(r)))
    ELSE Region("workbuf", BlockOffset(RecvBlock(r)) + PieceOffset(r),
                PieceLength(r, RecvBlock(r)))

SendRegion(r) ==
    Region("workbuf", BlockOffset(SendBlock(r)) + PieceOffset(r),
           PieceLength(r, SendBlock(r)))

Tag(r) == make_tag(sequence[r], phase[r], step[r], piece[r])

PostedRequest(request, offset, length) ==
    [request |-> request, element_offset |-> offset, element_count |-> length]

\* Mistake: the offset inside the block taken for the offset in the array.
ReduceTarget_without_block(r, posted) ==
    Region("workbuf", posted.element_offset, posted.element_count)

\* Where a received piece is reduced into, and what it is combined with.
ReduceTarget(r, posted) ==
    Region("workbuf", BlockOffset(RecvBlock(r)) + posted.element_offset,
           posted.element_count)
ReduceSource(posted) ==
    Region("temporary_buffer", posted.element_offset, posted.element_count)

\* reduce_in_place: destination[i] (op)= source[i].
reduce_in_place(destination, source) ==
    [i \in DOMAIN destination |-> destination[i] \o source[i]]

LastStatus(r) ==
    IF returned[r] = <<>> THEN PG_SUCCESS
    ELSE returned[r][Len(returned[r])].status

CallKind(r) == Calls[calls[r]]

PostedRequests(Requests) ==
    [request : Requests, element_offset : Nat, element_count : Nat]

TypeOKProgram(Requests) ==
    /\ pc            \in [Ranks -> Locations]
    /\ phase         \in [Ranks -> {ReduceScatter, AllGather}]
    /\ step          \in [Ranks -> 0..(WorldSize - 2)]
    /\ batch         \in [Ranks -> Nat]
    /\ piece         \in [Ranks -> Nat]
    /\ sequence      \in [Ranks -> Nat]
    /\ recv_requests \in [Ranks -> Seq(PostedRequests(Requests))]
    /\ send_requests \in [Ranks -> Seq(PostedRequests(Requests))]
    /\ calls         \in [Ranks -> 0..Len(Calls)]
    /\ returned      \in [Ranks -> Seq([status  : Statuses,
                                       recvbuf : [Elements("workbuf") -> Seq(Contributions)]])]

-----------------------------------------------------------------------------
(* The program.                                                              *)

InitProgram ==
    /\ pc            = [r \in Ranks |-> "idle"]
    /\ phase         = [r \in Ranks |-> ReduceScatter]
    /\ step          = [r \in Ranks |-> 0]
    /\ batch         = [r \in Ranks |-> 0]
    /\ piece         = [r \in Ranks |-> 0]
    /\ sequence      = [r \in Ranks |-> FirstSequence]
    /\ recv_requests = [r \in Ranks |-> <<>>]
    /\ send_requests = [r \in Ranks |-> <<>>]
    /\ calls         = [r \in Ranks |-> 0]
    /\ returned      = [r \in Ranks |-> <<>>]

Goto(r, location) == pc' = [pc EXCEPT ![r] = location]

MayCall(r) ==
    /\ pc[r] = "idle"
    /\ calls[r] < Len(Calls)
    /\ LastStatus(r) = PG_SUCCESS \/ ContinueAfterError

\* The call returns and leaves its locals; requests it had posted stay posted.
Return(r, status) ==
    /\ Goto(r, "idle")
    /\ returned' = [returned EXCEPT ![r] =
                      Append(@, [status |-> status, recvbuf |-> memory[r].workbuf])]
    /\ phase' = [phase EXCEPT ![r] = ReduceScatter]
    /\ step'  = [step EXCEPT ![r] = 0]
    /\ batch' = [batch EXCEPT ![r] = 0]
    /\ piece' = [piece EXCEPT ![r] = 0]
    /\ recv_requests' = [recv_requests EXCEPT ![r] = <<>>]
    /\ send_requests' = [send_requests EXCEPT ![r] = <<>>]

ReturnError(r, status) ==
    /\ Return(r, status)
    /\ UNCHANGED <<sequence, calls, memory>>

\* pg_all_reduce and ring_all_reduce refuse the call before touching anything.
RefuseCall(r) ==
    /\ MayCall(r)
    /\ calls' = [calls EXCEPT ![r] = @ + 1]
    /\ \/ /\ Calls[calls[r] + 1] = "invalid_argument"
          /\ Return(r, PG_ERR_INVALID_ARGUMENT)
       \/ /\ Calls[calls[r] + 1] = "bad_datatype"
          /\ Return(r, PG_ERR_UNSUPPORTED_DATATYPE)
    /\ UNCHANGED <<sequence, memory>>

\* Mistake: recvbuf keeps the result of the last call, as if it were sendbuf.
BeginCall_without_copy(r) ==
    /\ MayCall(r)
    /\ Calls[calls[r] + 1] \in {"valid", "bad_operation"}
    /\ calls' = [calls EXCEPT ![r] = @ + 1]
    /\ memory' = IF calls[r] > 0 THEN memory
                 ELSE [memory EXCEPT ![r].workbuf =
                         [e \in Elements("workbuf") |-> <<(<<r, calls[r] + 1>>)>>]]
    /\ Goto(r, "batch")
    /\ UNCHANGED <<phase, step, batch, piece, sequence, recv_requests,
                   send_requests, returned>>

\* memcpy(recvbuf, sendbuf), then ring_reduce_scatter_inplace starts.
BeginCall(r) ==
    /\ MayCall(r)
    /\ Calls[calls[r] + 1] \in {"valid", "bad_operation"}
    /\ calls' = [calls EXCEPT ![r] = @ + 1]
    /\ memory' = [memory EXCEPT ![r].workbuf =
                    [e \in Elements("workbuf") |-> <<(<<r, calls[r] + 1>>)>>]]
    /\ Goto(r, "batch")
    /\ UNCHANGED <<phase, step, batch, piece, sequence, recv_requests,
                   send_requests, returned>>

\* The head of the batch loop.
BatchesLeft(r) == batch[r] < TotalBatches(r)

BeginBatch(r) ==
    /\ pc[r] = "batch"
    /\ BatchesLeft(r)
    /\ Goto(r, "postRecv")
    /\ piece' = [piece EXCEPT ![r] = BeginPiece(r)]
    /\ UNCHANGED <<phase, step, batch, sequence, recv_requests, send_requests,
                   calls, returned, memory>>

NextStep(r) ==
    /\ pc[r] = "batch"
    /\ ~BatchesLeft(r)
    /\ step[r] + 1 < WorldSize - 1
    /\ step'  = [step EXCEPT ![r] = @ + 1]
    /\ batch' = [batch EXCEPT ![r] = 0]
    /\ UNCHANGED <<pc, phase, piece, sequence, recv_requests, send_requests,
                   calls, returned, memory>>

\* ring_reduce_scatter_inplace returns owned_block and ring_all_gather_inplace
\* takes it; both compute (rank + 1) mod size, so the argument check passes.
BeginAllGather(r) ==
    /\ pc[r] = "batch"
    /\ ~BatchesLeft(r)
    /\ step[r] + 1 >= WorldSize - 1
    /\ phase[r] = ReduceScatter
    /\ phase' = [phase EXCEPT ![r] = AllGather]
    /\ step'  = [step EXCEPT ![r] = 0]
    /\ batch' = [batch EXCEPT ![r] = 0]
    /\ UNCHANGED <<pc, piece, sequence, recv_requests, send_requests, calls,
                   returned, memory>>

ReturnSuccess(r) ==
    /\ pc[r] = "batch"
    /\ ~BatchesLeft(r)
    /\ step[r] + 1 >= WorldSize - 1
    /\ phase[r] = AllGather
    /\ sequence' = [sequence EXCEPT ![r] = @ + 1]
    /\ Return(r, PG_SUCCESS)
    /\ UNCHANGED <<calls, memory>>

RecvToPost(r) ==
    pc[r] = "postRecv" /\ piece[r] < LeastOf(EndPiece(r), RecvPieces(r))
SendToPost(r) ==
    pc[r] = "postSend" /\ piece[r] < LeastOf(EndPiece(r), SendPieces(r))

\* Mistake: a piece without a tag is passed over.
TagOutOfRange_skipping(r) ==
    /\ RecvToPost(r) \/ SendToPost(r)
    /\ ~TagInRange(step[r], piece[r])
    /\ piece' = [piece EXCEPT ![r] = @ + 1]
    /\ UNCHANGED <<pc, phase, step, batch, sequence, recv_requests,
                   send_requests, calls, returned, memory>>

\* make_tag fails, in either posting loop.
TagOutOfRange(r) ==
    /\ RecvToPost(r) \/ SendToPost(r)
    /\ ~TagInRange(step[r], piece[r])
    /\ ReturnError(r, PG_ERR_TAG_RANGE)

RecvPosted(r, request) ==
    /\ recv_requests' = [recv_requests EXCEPT ![r] =
            Append(@, PostedRequest(request, PieceOffset(r), PieceLength(r, RecvBlock(r))))]
    /\ piece' = [piece EXCEPT ![r] = @ + 1]
    /\ UNCHANGED <<pc, phase, step, batch, sequence, send_requests, calls,
                   returned, memory>>

SendPosted(r, request) ==
    /\ send_requests' = [send_requests EXCEPT ![r] =
            Append(@, PostedRequest(request, PieceOffset(r), PieceLength(r, SendBlock(r))))]
    /\ piece' = [piece EXCEPT ![r] = @ + 1]
    /\ UNCHANGED <<pc, phase, step, batch, sequence, recv_requests, calls,
                   returned, memory>>

EndPostRecv(r) ==
    /\ pc[r] = "postRecv" /\ ~RecvToPost(r)
    /\ Goto(r, "postSend")
    /\ piece' = [piece EXCEPT ![r] = BeginPiece(r)]
    /\ UNCHANGED <<phase, step, batch, sequence, recv_requests, send_requests,
                   calls, returned, memory>>

\* Mistake: the receives are not waited for.
EndPostSend_without_wait(r) ==
    /\ pc[r] = "postSend" /\ ~SendToPost(r)
    /\ Goto(r, "waitSend")
    /\ recv_requests' = [recv_requests EXCEPT ![r] = <<>>]
    /\ UNCHANGED <<phase, step, batch, piece, sequence, send_requests, calls,
                   returned, memory>>

EndPostSend(r) ==
    /\ pc[r] = "postSend" /\ ~SendToPost(r)
    /\ Goto(r, "waitRecv")
    /\ UNCHANGED <<phase, step, batch, piece, sequence, recv_requests,
                   send_requests, calls, returned, memory>>

\* The request the program waits for.
Awaited(r) ==
    CASE pc[r] = "waitRecv" /\ recv_requests[r] # <<>> -> {Head(recv_requests[r]).request}
      [] pc[r] = "waitSend" /\ send_requests[r] # <<>> -> {Head(send_requests[r]).request}
      [] OTHER -> {}

\* Mistake: the status of reduce_in_place is not looked at.
RecvWaited_ignoring_status(r) ==
    LET posted == Head(recv_requests[r])
    IN  /\ pc[r] = "waitRecv" /\ recv_requests[r] # <<>>
        /\ memory' = IF phase[r] = ReduceScatter /\ CallKind(r) # "bad_operation"
                     THEN Stored(r, ReduceTarget(r, posted),
                                 reduce_in_place(Contents(r, ReduceTarget(r, posted)),
                                                 Contents(r, ReduceSource(posted))))
                     ELSE memory
        /\ recv_requests' = [recv_requests EXCEPT ![r] = Tail(@)]
        /\ UNCHANGED <<pc, phase, step, batch, piece, sequence, send_requests,
                       calls, returned>>

\* wait returned 0 for a receive: reduce the piece, or leave it where it landed.
RecvWaited(r) ==
    LET posted == Head(recv_requests[r])
    IN  /\ pc[r] = "waitRecv" /\ recv_requests[r] # <<>>
        /\ phase[r] = ReduceScatter => CallKind(r) # "bad_operation"
        /\ memory' = IF phase[r] = ReduceScatter
                     THEN Stored(r, ReduceTarget(r, posted),
                                 reduce_in_place(Contents(r, ReduceTarget(r, posted)),
                                                 Contents(r, ReduceSource(posted))))
                     ELSE memory
        /\ recv_requests' = [recv_requests EXCEPT ![r] = Tail(@)]
        /\ UNCHANGED <<pc, phase, step, batch, piece, sequence, send_requests,
                       calls, returned>>

\* The operation is looked at for the first time here.
OperationUnsupported(r) ==
    /\ pc[r] = "waitRecv" /\ recv_requests[r] # <<>>
    /\ phase[r] = ReduceScatter
    /\ CallKind(r) = "bad_operation"
    /\ ReturnError(r, PG_ERR_UNSUPPORTED_OPERATION)

\* Mistake: All-Gather, having every block, does not wait for its sends.
EndWaitRecv_gathered(r) ==
    /\ pc[r] = "waitRecv" /\ recv_requests[r] = <<>>
    /\ Goto(r, "waitSend")
    /\ send_requests' = IF phase[r] = AllGather
                        THEN [send_requests EXCEPT ![r] = <<>>] ELSE send_requests
    /\ UNCHANGED <<phase, step, batch, piece, sequence, recv_requests, calls,
                   returned, memory>>

EndWaitRecv(r) ==
    /\ pc[r] = "waitRecv" /\ recv_requests[r] = <<>>
    /\ Goto(r, "waitSend")
    /\ UNCHANGED <<phase, step, batch, piece, sequence, recv_requests,
                   send_requests, calls, returned, memory>>

SendWaited(r) ==
    /\ pc[r] = "waitSend" /\ send_requests[r] # <<>>
    /\ send_requests' = [send_requests EXCEPT ![r] = Tail(@)]
    /\ UNCHANGED <<pc, phase, step, batch, piece, sequence, recv_requests,
                   calls, returned, memory>>

EndBatch(r) ==
    /\ pc[r] = "waitSend" /\ send_requests[r] = <<>>
    /\ Goto(r, "batch")
    /\ batch' = [batch EXCEPT ![r] = @ + 1]
    /\ UNCHANGED <<phase, step, piece, sequence, recv_requests, send_requests,
                   calls, returned, memory>>

\* A step of the loops that calls nothing of the transport.
Proceed(r) ==
    \/ RefuseCall(r)  \/ BeginCall(r)   \/ BeginBatch(r)  \/ NextStep(r)
    \/ BeginAllGather(r) \/ ReturnSuccess(r) \/ TagOutOfRange(r)
    \/ EndPostRecv(r) \/ EndPostSend(r) \/ EndWaitRecv(r) \/ EndBatch(r)

=============================================================================
