----------------------------- MODULE VerbsRing ------------------------------
(* A process group: every rank runs the ring all-reduce over its             *)
(* VerbsTransport, and the RDMA fabric and the control sockets join the      *)
(* ranks into a ring.                                                        *)
EXTENDS RingCollective, VerbsTransport

vars == <<memory, program_vars, verbs_vars>>

Init == InitMemory /\ InitProgram /\ InitVerbs

-----------------------------------------------------------------------------
(* Steps of a rank's program that call its transport.                        *)

RecvBytes(r) == PieceLength(r, RecvBlock(r)) * ElementSize
SendBytes(r) == PieceLength(r, SendBlock(r)) * ElementSize

PostRecv(r) ==
    /\ RecvToPost(r)
    /\ TagInRange(step[r], piece[r])
    /\ \/ /\ post_receive_previous(r, RecvRegion(r), RecvBytes(r), Tag(r), transfer_mode(r))
          /\ RecvPosted(r, NewRequest(r, "recv", Tag(r), RecvBytes(r), transfer_mode(r)))
       \/ /\ post_receive_throws(r)
          /\ ReturnError(r, PG_ERR_TRANSPORT)

PostSend(r) ==
    /\ SendToPost(r)
    /\ TagInRange(step[r], piece[r])
    /\ \/ /\ post_send_next(r, SendRegion(r), SendBytes(r), Tag(r), transfer_mode(r))
          /\ SendPosted(r, NewRequest(r, "send", Tag(r), SendBytes(r), transfer_mode(r)))
       \/ /\ post_send_throws(r, SendBytes(r), Tag(r), transfer_mode(r))
          /\ ReturnError(r, PG_ERR_TRANSPORT)

\* wait_request polls until the request it was given is completed.
Poll(r) ==
    /\ Awaited(r) # {}
    /\ Awaited(r) \cap completed[r] = {}
    /\ handle_completion(r)
    /\ UNCHANGED <<program_vars, memory>>

\* ibv_poll_cq fails: wait throws, and its request stays pending.
PollFails(r) ==
    /\ r \in FaultyRanks
    /\ Awaited(r) # {}
    /\ Awaited(r) \cap completed[r] = {}
    /\ ReturnError(r, PG_ERR_TRANSPORT)
    /\ UNCHANGED verbs_vars

\* wait_request returns: the request is consumed, then its status looked at.
Wait(r) ==
    \E request \in Awaited(r) :
        /\ consume_request(r, request)
        /\ \/ /\ request \notin errored[r]
              /\ RecvWaited(r) \/ OperationUnsupported(r) \/ SendWaited(r)
           \/ /\ request \in errored[r]
              /\ ReturnError(r, PG_ERR_TRANSPORT)

RunRank(r) ==
    \/ Proceed(r) /\ UNCHANGED verbs_vars
    \/ PostRecv(r)
    \/ PostSend(r)
    \/ Poll(r)
    \/ PollFails(r)
    \/ Wait(r)

Fabric(s) ==
    /\ Deliver(s) \/ Acknowledge(s) \/ BreakLink(s) \/ FlushSend(s)
    /\ UNCHANGED program_vars

\* Every rank has made all the calls it will make.
Finished ==
    /\ \A r \in Ranks : pc[r] = "idle" /\ ~MayCall(r)
    /\ UNCHANGED vars

Next ==
    \/ \E r \in Ranks : RunRank(r) \/ Fabric(r)
    \/ Finished

\* A rank is a process that keeps running; the NIC and the kernel keep moving
\* what they were given.  Nothing makes a link break.
Fairness ==
    \A r \in Ranks :
        /\ WF_vars(RunRank(r))
        /\ WF_vars(Deliver(r) /\ UNCHANGED program_vars)
        /\ WF_vars(Acknowledge(r) /\ UNCHANGED program_vars)
        /\ WF_vars(FlushSend(r) /\ UNCHANGED program_vars)

Spec == Init /\ [][Next]_vars

FairSpec == Spec /\ Fairness

-----------------------------------------------------------------------------
(* Types.                                                                    *)

\* Every variable keeps its type.  The type of a work request and of a
\* descriptor holds only regions inside their buffer, so this is also memory
\* safety: no post of the collective (ring_collectives.cpp:202, 240, 355, 390)
\* points outside workbuf or temporary_buffer, whatever count, ranks and pieces.
TypeOK ==
    /\ TypeOKMemory
    /\ TypeOKProgram(RequestStates)
    /\ TypeOKVerbs

-----------------------------------------------------------------------------
(* Safety.                                                                   *)

\* Rank r has never had a call fail.
Unfailed(r) == LastStatus(r) = PG_SUCCESS

\* A message and the receive WR it will consume belong to the same piece.
SendMatches(send, recv) ==
    /\ recv.wr_id.kind = "recv"
    /\ recv.wr_id.tag = send.imm_data
    /\ recv.wr_id.mode = send.wr_id.mode
    /\ recv.bytes = send.bytes
    /\ recv.wr_id.mode = EAGER => recv.sge = send.remote_address

\* A descriptor announces the receive WR it was written for.
DescribesRecv(descriptor, recv) ==
    /\ recv.wr_id.kind = "recv"
    /\ recv.wr_id.tag = descriptor.tag
    /\ recv.wr_id.mode = descriptor.mode
    /\ recv.bytes = descriptor.bytes
    /\ recv.wr_id.mode = EAGER => recv.sge = descriptor.remote_address

\* The RDMA fabric matches by arrival order, the contract of pg_transport.h:60
\* by tag.  On a link that works they agree: the k-th message under way
\* to the next rank finds the k-th receive WR posted there, for the same tag,
\* size, mode and address, and the descriptors still unread announce the
\* receive WRs that are left.  So no message ever meets an empty receive queue
\* (RNR) or another piece's buffer (post_receive_previous, post_send_next).
LinkInOrder ==
    \A s \in Ranks :
        LET d == NextRank(s) IN
        ~qp_error[s] =>
            /\ Len(send_queue[s]) <= Len(recv_queue[d])
            /\ \A k \in 1..Len(send_queue[s]) :
                  SendMatches(send_queue[s][k], recv_queue[d][k])
            /\ Unfailed(s) =>
                 /\ Len(recv_queue[d]) = Len(send_queue[s]) + Len(control[d])
                 /\ \A k \in 1..Len(control[d]) :
                       DescribesRecv(control[d][k], recv_queue[d][Len(send_queue[s]) + k])

\* Every contribution of call c exactly once, and nothing of another call.
Combines(value, c) ==
    /\ Len(value) = WorldSize
    /\ \A r \in Ranks : \E i \in 1..Len(value) : value[i] = <<r, c>>

\* A call that returns PG_SUCCESS leaves the reduction over all ranks in every
\* element of recvbuf: no contribution lost, taken twice or left from an
\* earlier call (ring_all_reduce).
OutputsCorrect ==
    \A r \in Ranks : \A c \in 1..Len(returned[r]) :
        returned[r][c].status = PG_SUCCESS =>
            \A e \in Elements("workbuf") : Combines(returned[r][c].recvbuf[e], c)

BlockElements(block) ==
    {e \in Elements("workbuf") : BlockOffset(block) <= e
                              /\ e < BlockOffset(block) + BlockCount(block)}

\* Through the whole All-Gather the block (rank + 1) mod size is fully reduced
\* at rank, as ring_reduce_scatter_inplace promised with owned_block.
OwnedBlockReduced ==
    \A r \in Ranks :
        pc[r] # "idle" /\ phase[r] = AllGather =>
            \A e \in BlockElements(owned_block(r, WorldSize)) :
                Combines(memory[r].workbuf[e], calls[r])

\* Regions of rank r the fabric may still write: announced receives, and
\* receives whose message is under way.
Incoming(r) ==
    [k \in 1..Len(control[r]) |-> control[r][k].remote_address] \o
    [k \in 1..Len(send_queue[PrevRank(r)]) |->
        send_queue[PrevRank(r)][k].remote_address]

\* Regions of rank r the fabric may still read, for a first transmission or a
\* retransmission.
Outgoing(r) ==
    [k \in 1..Len(send_queue[r]) |-> send_queue[r][k].sge] \o
    [k \in 1..Len(unacknowledged[r]) |-> unacknowledged[r][k].sge]

\* The rank is about to reduce this received piece.
AboutToReduce(r) ==
    /\ phase[r] = ReduceScatter
    /\ Awaited(r) # {} /\ Awaited(r) \subseteq completed[r] \ errored[r]
    /\ pc[r] = "waitRecv"

\* The rank is about to copy sendbuf over the whole of workbuf.
AboutToCopy(r) == MayCall(r) /\ Calls[calls[r] + 1] \in {"valid", "bad_operation"}

Workbuf == Region("workbuf", 0, Count)

\* Inside a call: the regions the fabric may write are disjoint from each other
\* and from those it may read, and a piece is reduced only where the fabric
\* neither reads nor writes.
BuffersUnshared ==
    \A r \in Ranks :
        /\ \A j, k \in 1..Len(Incoming(r)) :
              j # k => ~Overlap(Incoming(r)[j], Incoming(r)[k])
        /\ \A j \in 1..Len(Incoming(r)), k \in 1..Len(Outgoing(r)) :
              ~Overlap(Incoming(r)[j], Outgoing(r)[k])
        /\ AboutToReduce(r) =>
             LET posted == Head(recv_requests[r]) IN
             /\ \A k \in 1..Len(Outgoing(r)) :
                   ~Overlap(ReduceTarget(r, posted), Outgoing(r)[k])
             /\ \A k \in 1..Len(Incoming(r)) :
                   /\ ~Overlap(ReduceTarget(r, posted), Incoming(r)[k])
                   /\ ~Overlap(ReduceSource(posted), Incoming(r)[k])

\* pg_transport.h:62: "A send buffer cannot be modified until its request
\* completes."  The copy at the start of a call (ring_collectives.cpp:436)
\* overwrites nothing that the fabric may still read for an earlier call.
SendBuffersKept ==
    \A r \in Ranks : AboutToCopy(r) =>
        \A k \in 1..Len(Outgoing(r)) : ~Overlap(Workbuf, Outgoing(r)[k])

\* No buffer is used by two at once (contract, pg_transport.h:62-63): pieces are
\* apart, and the copy at the start of a call meets neither a region the fabric
\* may read nor one it may write.  It holds where no rank calls again after a
\* failed call; a retry breaks SendBuffersKept.
NoBufferRace ==
    /\ BuffersUnshared
    /\ SendBuffersKept
    /\ \A r \in Ranks : AboutToCopy(r) =>
          \A k \in 1..Len(Incoming(r)) : ~Overlap(Workbuf, Incoming(r)[k])

\* max_inflight bounds every queue the collective fills: work requests of each
\* kind, unread descriptors, and completions in the shared CQ
\* (ring_collectives.h:40, DESIGN section 7, "limits work requests").
InflightBounded ==
    \A r \in Ranks :
        /\ \A kind \in {"recv", "send"} :
              Cardinality({q \in pending_requests[r] : q.kind = kind}) <= batch_capacity(r)
        /\ Len(control[r]) <= batch_capacity(r)
        /\ Len(cq[r]) <= 2 * batch_capacity(r)

\* A call that succeeded leaves nothing behind at its rank: no request, work
\* request, completion or descriptor that the next call could meet.
QuiescentAfterSuccess ==
    \A r \in Ranks :
        pc[r] = "idle" /\ Unfailed(r) =>
            /\ pending_requests[r] = {}
            /\ recv_queue[r] = <<>> /\ send_queue[r] = <<>>
            /\ unacknowledged[r] = <<>> /\ cq[r] = <<>>
            /\ control[r] = <<>>

\* Where the application asks for valid calls, the tags suffice, the ranks are
\* configured alike and no link breaks, no call fails.
NeverFails == \A r \in Ranks : Unfailed(r)

\* Every completion names a request the transport still holds, so the exception
\* of handle_completion:473 (an unknown wr_id) is never thrown, no request
\* completes twice, and a request in use is never freed.
CompletionsKnown ==
    \A r \in Ranks :
        /\ \A k \in 1..Len(cq[r]) : cq[r][k].wr_id \in pending_requests[r] \ completed[r]
        /\ \A j, k \in 1..Len(cq[r]) : j # k => cq[r][j].wr_id # cq[r][k].wr_id

\* How many ring steps rank r has completed since the start.
StepsDone(r) ==
    IF pc[r] = "idle" THEN calls[r] * 2 * (WorldSize - 1)
    ELSE (calls[r] - 1) * 2 * (WorldSize - 1) + phase[r] * (WorldSize - 1) + step[r]

\* Nothing but the pieces themselves keeps the ranks in step: with no block
\* empty, neighbours are never more than one ring step apart, across phases
\* and calls too, so tags a sequence wrap apart are never alive together.
NeighboursInStep ==
    Count >= WorldSize =>
        \A r \in Ranks :
            /\ StepsDone(r) <= StepsDone(NextRank(r)) + 1
            /\ StepsDone(NextRank(r)) <= StepsDone(r) + 1

\* Every rank can serve call c: it knows the operation, and the pieces of every
\* block have tags.
Servable(c) ==
    /\ Calls[c] = "valid"
    /\ \A q, block \in Ranks :
          piece_count_for(BlockCount(block), piece_elements(q)) <= kPieceMask + 1

\* A call that some rank cannot serve succeeds nowhere, even if that rank finds
\* out only in the middle of the ring: a tag out of range (ring_collectives.cpp:
\* 194, 231, 347, 381) or an operation reduce_in_place does not know (261).
UnservableCallsFail ==
    \A r \in Ranks : \A c \in 1..Len(returned[r]) :
        returned[r][c].status = PG_SUCCESS => Servable(c)

\* DESIGN.md:103-104 says bounded batches limit work requests: whatever
\* max_inflight the group was given, a QP has room for the piece to be posted.
WorkRequestsFit ==
    \A r \in Ranks :
        /\ RecvToPost(r) => ~QpFull(r, "recv")
        /\ SendToPost(r) => ~QpFull(r, "send")

-----------------------------------------------------------------------------
(* Action and liveness properties.                                           *)

\* Inside a call no write to workbuf, by the program or by the fabric, ever
\* replaces a value by one that combines no more contributions: All-Gather never
\* spreads a partial sum over a reduced block.
ContributionsGrow ==
    [][\A r \in Ranks : pc[r] # "idle" =>
          \A e \in Elements("workbuf") :
              \/ memory'[r].workbuf[e] = memory[r].workbuf[e]
              \/ Len(memory'[r].workbuf[e]) > Len(memory[r].workbuf[e])]_vars

\* Seen from its callers the process group is an all-reduce (module AllReduce):
\* no rank returns before all have entered, and all return the same complete
\* reduction.
Abstract ==
    INSTANCE AllReduce WITH
        Indices <- Elements("workbuf"),
        NumCalls <- Len(Calls),
        entered  <- calls,
        results  <- [r \in Ranks |->
                        [c \in 1..Len(returned[r]) |-> returned[r][c].recvbuf]]
ImplementsAllReduce == Abstract!Spec

\* Every call that starts returns, at every rank.
EveryCallReturns == \A r \in Ranks : (pc[r] # "idle") ~> (pc[r] = "idle")

=============================================================================
