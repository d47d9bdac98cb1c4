--------------------------- MODULE VerbsTransport ---------------------------
(* One VerbsTransport per rank and the RDMA fabric between them: the pending *)
(* request table, the completion queue both QPs share, the send QP to the    *)
(* next rank, the receive QP from the previous rank, and the TCP control     *)
(* socket on which every receive announces itself to its sender.             *)
(*                                                                           *)
(* post_receive_previous, post_send_next, handle_completion and              *)
(* consume_request are the C++ methods; a rank's program calls them.         *)
(* Deliver, Acknowledge, BreakLink and FlushSend are the fabric.             *)
EXTENDS RankMemory, FiniteSets

CONSTANTS
    kEagerThresholdBytes, \* AUTO sends at most this many bytes eagerly
    QpDepth,              \* max_send_wr = max_recv_wr of create_qp
    SocketCapacity,       \* descriptors a control socket buffers before write blocks
    FaultyLinks,          \* ranks whose QP to the next rank may fail
    FaultyRanks           \* ranks where ibv_reg_mr and ibv_poll_cq may fail

ASSUME TransportAssumption ==
    /\ kEagerThresholdBytes \in Nat
    /\ QpDepth \in Nat \ {0}
    /\ SocketCapacity \in Nat \ {0}
    /\ FaultyLinks \subseteq Ranks
    /\ FaultyRanks \subseteq Ranks

VARIABLES
    next_request_id,   \* the id of the next RequestState
    pending_requests,  \* the RequestStates not consumed yet
    completed,         \* those with completed = true
    errored,           \* those with status = -1
    recv_queue,        \* receive WRs posted on qp_prev, oldest first
    send_queue,        \* send WRs on qp_next not yet delivered
    unacknowledged,    \* delivered sends whose acknowledgement is on its way
    cq,                \* completions not polled yet
    control,           \* descriptors rank r wrote for PrevRank(r), unread
    qp_error           \* the QP to the next rank is in the error state

verbs_vars == <<next_request_id, pending_requests, completed, errored,
                recv_queue, send_queue, unacknowledged, cq, control, qp_error>>

-----------------------------------------------------------------------------
(* Requests, work requests, completions and descriptors.  A wr_id is the     *)
(* address of the RequestState, so it is the state here.                     *)

EAGER      == "eager"
RENDEZVOUS == "rendezvous"
AUTO       == "auto"

\* Whatever is neither eager nor rendezvous is AUTO: parse_transfer_mode_environment
\* lets no other mode into a group, so the throw for one cannot be reached.
choose_mode(requested_mode, bytes) ==
    CASE requested_mode \in {EAGER, RENDEZVOUS} -> requested_mode
      [] bytes <= kEagerThresholdBytes          -> EAGER
      [] OTHER                                  -> RENDEZVOUS

RequestState(id, kind, tag, mode) ==
    [id |-> id, kind |-> kind, tag |-> tag, mode |-> mode]

ControlMessage(tag, bytes, mode, region) ==
    [tag |-> tag, bytes |-> bytes, mode |-> mode, remote_address |-> region]

\* A rendezvous receive has no scatter/gather entry (num_sge = 0).
RecvWr(state, bytes, region) ==
    [wr_id |-> state, bytes |-> bytes,
     sge |-> IF state.mode = EAGER THEN region ELSE Region(region.buffer, 0, 0)]

SendWr(state, bytes, region, remote) ==
    [wr_id |-> state, bytes |-> bytes, sge |-> region,
     opcode |-> IF state.mode = EAGER THEN "SEND_WITH_IMM" ELSE "RDMA_WRITE_WITH_IMM",
     imm_data |-> state.tag, remote_address |-> remote]

NoImmediate == -1

Completion(state, ok, opcode, imm) ==
    [wr_id |-> state, ok |-> ok, opcode |-> opcode, imm_data |-> imm]

\* What the NIC reports at either end of a send.
RecvCompletion(recv, send) ==
    Completion(recv.wr_id, TRUE,
               IF send.opcode = "SEND_WITH_IMM" THEN "RECV" ELSE "RECV_RDMA_WITH_IMM",
               send.imm_data)
SendCompletion(send, ok) ==
    Completion(send.wr_id, ok,
               IF send.opcode = "SEND_WITH_IMM" THEN "SEND" ELSE "RDMA_WRITE",
               NoImmediate)

\* Work requests of a kind that occupy a slot of their QP: posted, not polled.
Occupied(r, kind) == {q \in pending_requests[r] \ completed[r] : q.kind = kind}

QpFull(r, kind) == Cardinality(Occupied(r, kind)) >= QpDepth

(* The types of the above.                                                   *)
RequestStates   == [id : Nat, kind : {"send", "recv"}, tag : Nat, mode : {EAGER, RENDEZVOUS}]
ControlMessages == [tag : Nat, bytes : Nat, mode : {EAGER, RENDEZVOUS},
                    remote_address : Regions]
RecvWrs         == [wr_id : RequestStates, bytes : Nat, sge : Regions]
SendWrs         == [wr_id : RequestStates, bytes : Nat, sge : Regions,
                    opcode : {"SEND_WITH_IMM", "RDMA_WRITE_WITH_IMM"},
                    imm_data : Nat, remote_address : Regions]
Completions     == [wr_id : RequestStates, ok : BOOLEAN,
                    opcode : {"SEND", "RDMA_WRITE", "RECV", "RECV_RDMA_WITH_IMM"},
                    imm_data : Int]

TypeOKVerbs ==
    /\ next_request_id  \in [Ranks -> Nat]
    /\ pending_requests \in [Ranks -> SUBSET RequestStates]
    /\ completed        \in [Ranks -> SUBSET RequestStates]
    /\ errored          \in [Ranks -> SUBSET RequestStates]
    /\ recv_queue       \in [Ranks -> Seq(RecvWrs)]
    /\ send_queue       \in [Ranks -> Seq(SendWrs)]
    /\ unacknowledged   \in [Ranks -> Seq(SendWrs)]
    /\ cq               \in [Ranks -> Seq(Completions)]
    /\ control          \in [Ranks -> Seq(ControlMessages)]
    /\ qp_error         \in [Ranks -> BOOLEAN]

InitVerbs ==
    /\ next_request_id  = [r \in Ranks |-> 1]
    /\ pending_requests = [r \in Ranks |-> {}]
    /\ completed        = [r \in Ranks |-> {}]
    /\ errored          = [r \in Ranks |-> {}]
    /\ recv_queue       = [r \in Ranks |-> <<>>]
    /\ send_queue       = [r \in Ranks |-> <<>>]
    /\ unacknowledged   = [r \in Ranks |-> <<>>]
    /\ cq               = [r \in Ranks |-> <<>>]
    /\ control          = [r \in Ranks |-> <<>>]
    /\ qp_error         = [r \in Ranks |-> FALSE]

-----------------------------------------------------------------------------
(* Calls of a rank's program.                                                *)

\* The state of the request rank r posts next.
NewRequest(r, kind, tag, bytes, requested_mode) ==
    RequestState(next_request_id[r], kind, tag, choose_mode(requested_mode, bytes))

TakeId(r) == next_request_id' = [next_request_id EXCEPT ![r] = @ + 1]

\* Mistake: a refused ibv_post_recv is not noticed.
post_receive_previous_unchecked(r, region, bytes, tag, requested_mode) ==
    LET state == NewRequest(r, "recv", tag, bytes, requested_mode)
    IN  /\ Len(control[r]) < SocketCapacity
        /\ TakeId(r)
        /\ pending_requests' = [pending_requests EXCEPT ![r] = @ \cup {state}]
        /\ recv_queue' = IF QpFull(r, "recv") THEN recv_queue
                         ELSE [recv_queue EXCEPT ![r] =
                                 Append(@, RecvWr(state, bytes, region))]
        /\ control' = [control EXCEPT ![r] =
                          Append(@, ControlMessage(tag, bytes, state.mode, region))]
        /\ UNCHANGED <<completed, errored, send_queue, unacknowledged, cq, qp_error>>

\* Register, track, ibv_post_recv, then write the descriptor to the sender.
\* The write blocks while the socket is full; no send can take the WR meanwhile,
\* its sender has not read the descriptor.
post_receive_previous(r, region, bytes, tag, requested_mode) ==
    LET state == NewRequest(r, "recv", tag, bytes, requested_mode)
    IN  /\ ~QpFull(r, "recv")
        /\ Len(control[r]) < SocketCapacity
        /\ TakeId(r)
        /\ pending_requests' = [pending_requests EXCEPT ![r] = @ \cup {state}]
        /\ recv_queue' = [recv_queue EXCEPT ![r] = Append(@, RecvWr(state, bytes, region))]
        /\ control' = [control EXCEPT ![r] =
                          Append(@, ControlMessage(tag, bytes, state.mode, region))]
        /\ UNCHANGED <<completed, errored, send_queue, unacknowledged, cq, qp_error>>

\* It throws before anything is kept: ibv_reg_mr fails, or ibv_post_recv refuses,
\* which has used an id.
post_receive_throws(r) ==
    /\ \/ /\ r \in FaultyRanks
          /\ UNCHANGED next_request_id
       \/ /\ QpFull(r, "recv")
          /\ TakeId(r)
    /\ UNCHANGED <<pending_requests, completed, errored, recv_queue, send_queue,
                   unacknowledged, cq, control, qp_error>>

\* Mistake: equal tags are taken for equal pieces.
DescriptorMatches_by_tag(descriptor, tag, bytes, mode) == descriptor.tag = tag

DescriptorMatches(descriptor, tag, bytes, mode) ==
    /\ descriptor.tag = tag
    /\ descriptor.bytes = bytes
    /\ descriptor.mode = mode

\* Mistake: an eager send needs no address, so it does not wait for one.
post_send_next_unannounced(r, region, bytes, tag, requested_mode) ==
    LET state == NewRequest(r, "send", tag, bytes, requested_mode)
    IN  /\ ~QpFull(r, "send")
        /\ TakeId(r)
        /\ pending_requests' = [pending_requests EXCEPT ![r] = @ \cup {state}]
        /\ send_queue' = [send_queue EXCEPT ![r] =
                Append(@, SendWr(state, bytes, region, Region(region.buffer, 0, 0)))]
        /\ UNCHANGED <<completed, errored, recv_queue, unacknowledged, cq, control,
                       qp_error>>

\* Block until the next rank's descriptor arrives, check it, ibv_post_send.
post_send_next(r, region, bytes, tag, requested_mode) ==
    LET state      == NewRequest(r, "send", tag, bytes, requested_mode)
        next       == NextRank(r)
        descriptor == Head(control[next])
    IN  /\ control[next] # <<>>
        /\ DescriptorMatches(descriptor, tag, bytes, state.mode)
        /\ ~QpFull(r, "send")
        /\ control' = [control EXCEPT ![next] = Tail(@)]
        /\ TakeId(r)
        /\ pending_requests' = [pending_requests EXCEPT ![r] = @ \cup {state}]
        /\ send_queue' = [send_queue EXCEPT ![r] =
                Append(@, SendWr(state, bytes, region, descriptor.remote_address))]
        /\ UNCHANGED <<completed, errored, recv_queue, unacknowledged, cq, qp_error>>

\* Mistake: giving up a send gives up every request with it.
post_send_throws_clearing(r, bytes, tag, requested_mode) ==
    /\ control[NextRank(r)] # <<>>
    /\ control' = [control EXCEPT ![NextRank(r)] = Tail(@)]
    /\ \/ ~DescriptorMatches(Head(control[NextRank(r)]), tag, bytes,
                             choose_mode(requested_mode, bytes))
       \/ QpFull(r, "send")
    /\ pending_requests' = [pending_requests EXCEPT ![r] = {}]
    /\ UNCHANGED <<next_request_id, completed, errored, recv_queue, send_queue,
                   unacknowledged, cq, qp_error>>

\* It throws on a descriptor that does not match, or when ibv_reg_mr fails or
\* ibv_post_send refuses.  The descriptor has been read and is gone.
post_send_throws(r, bytes, tag, requested_mode) ==
    LET mode       == choose_mode(requested_mode, bytes)
        next       == NextRank(r)
        descriptor == Head(control[next])
    IN  /\ control[next] # <<>>
        /\ control' = [control EXCEPT ![next] = Tail(@)]
        /\ \/ /\ ~DescriptorMatches(descriptor, tag, bytes, mode) \/ r \in FaultyRanks
              /\ UNCHANGED next_request_id
           \/ /\ DescriptorMatches(descriptor, tag, bytes, mode)
              /\ QpFull(r, "send")
              /\ TakeId(r)
        /\ UNCHANGED <<pending_requests, completed, errored, recv_queue,
                       send_queue, unacknowledged, cq, qp_error>>

\* A successful completion that is not the one the request asked for.
Unexpected(state, completion) ==
    IF state.kind = "send"
    THEN completion.opcode # (IF state.mode = EAGER THEN "SEND" ELSE "RDMA_WRITE")
    ELSE \/ completion.opcode # (IF state.mode = EAGER THEN "RECV" ELSE "RECV_RDMA_WITH_IMM")
         \/ completion.imm_data # state.tag

\* Mistake: a completion of the QP that is not waited for is put back.
handle_completion_of_receives(r) ==
    LET completion == Head(cq[r])
        state      == completion.wr_id
    IN  /\ cq[r] # <<>>
        /\ IF state.kind = "recv"
           THEN /\ completed' = [completed EXCEPT ![r] = @ \cup {state}]
                /\ cq' = [cq EXCEPT ![r] = Tail(@)]
           ELSE /\ cq' = [cq EXCEPT ![r] = Append(Tail(@), completion)]
                /\ UNCHANGED completed
        /\ UNCHANGED <<next_request_id, pending_requests, errored, recv_queue,
                       send_queue, unacknowledged, control, qp_error>>

\* poll_one_blocking got one completion: it completes the request it names.
handle_completion(r) ==
    LET completion == Head(cq[r])
        state      == completion.wr_id
    IN  /\ cq[r] # <<>>
        /\ state \in pending_requests[r]
        /\ completed' = [completed EXCEPT ![r] = @ \cup {state}]
        /\ errored' = IF ~completion.ok \/ Unexpected(state, completion)
                      THEN [errored EXCEPT ![r] = @ \cup {state}] ELSE errored
        /\ cq' = [cq EXCEPT ![r] = Tail(@)]
        /\ UNCHANGED <<next_request_id, pending_requests, recv_queue, send_queue,
                       unacknowledged, control, qp_error>>

\* Mistake: a request is given up before its completion was polled.
consume_request_early(r, state) ==
    /\ state \in pending_requests[r]
    /\ pending_requests' = [pending_requests EXCEPT ![r] = @ \ {state}]
    /\ completed' = [completed EXCEPT ![r] = @ \ {state}]
    /\ errored'   = [errored EXCEPT ![r] = @ \ {state}]
    /\ UNCHANGED <<next_request_id, recv_queue, send_queue, unacknowledged, cq,
                   control, qp_error>>

\* wait_request returned: the request is erased, whatever its status.
consume_request(r, state) ==
    /\ state \in completed[r]
    /\ pending_requests' = [pending_requests EXCEPT ![r] = @ \ {state}]
    /\ completed' = [completed EXCEPT ![r] = @ \ {state}]
    /\ errored'   = [errored EXCEPT ![r] = @ \ {state}]
    /\ UNCHANGED <<next_request_id, recv_queue, send_queue, unacknowledged, cq,
                   control, qp_error>>

-----------------------------------------------------------------------------
(* The fabric.                                                               *)

\* The oldest send reaches the next rank and takes its oldest receive WR.  An
\* eager message lands where the receive WR points, a rendezvous write where
\* the descriptor pointed.  The NIC reads the source only now.
Deliver(s) ==
    LET d    == NextRank(s)
        send == Head(send_queue[s])
        recv == Head(recv_queue[d])
        target == IF send.opcode = "SEND_WITH_IMM" THEN recv.sge ELSE send.remote_address
    IN  /\ ~qp_error[s]
        /\ send_queue[s] # <<>>
        /\ recv_queue[d] # <<>>
        /\ memory' = Stored(d, target, Contents(s, send.sge))
        /\ send_queue'     = [send_queue EXCEPT ![s] = Tail(@)]
        /\ recv_queue'     = [recv_queue EXCEPT ![d] = Tail(@)]
        /\ unacknowledged' = [unacknowledged EXCEPT ![s] = Append(@, send)]
        /\ cq' = [cq EXCEPT ![d] = Append(@, RecvCompletion(recv, send))]
        /\ UNCHANGED <<next_request_id, pending_requests, completed, errored,
                       control, qp_error>>

\* The acknowledgement completes the send at its sender.
Acknowledge(s) ==
    LET send == Head(unacknowledged[s])
    IN  /\ ~qp_error[s]
        /\ unacknowledged[s] # <<>>
        /\ unacknowledged' = [unacknowledged EXCEPT ![s] = Tail(@)]
        /\ cq' = [cq EXCEPT ![s] = Append(@, SendCompletion(send, TRUE))]
        /\ UNCHANGED <<next_request_id, pending_requests, completed, errored,
                       recv_queue, send_queue, control, qp_error, memory>>

\* The transport retries run out on the link to the next rank.
BreakLink(s) ==
    /\ s \in FaultyLinks
    /\ ~qp_error[s]
    /\ send_queue[s] # <<>> \/ unacknowledged[s] # <<>>
    /\ qp_error' = [qp_error EXCEPT ![s] = TRUE]
    /\ UNCHANGED <<next_request_id, pending_requests, completed, errored,
                   recv_queue, send_queue, unacknowledged, cq, control, memory>>

\* A QP in the error state flushes its sends with an error, in order, the ones
\* the next rank already received included.  The receiver learns nothing.
FlushSend(s) ==
    LET flushed == Head(unacknowledged[s] \o send_queue[s])
    IN  /\ qp_error[s]
        /\ unacknowledged[s] \o send_queue[s] # <<>>
        /\ IF unacknowledged[s] # <<>>
           THEN /\ unacknowledged' = [unacknowledged EXCEPT ![s] = Tail(@)]
                /\ UNCHANGED send_queue
           ELSE /\ send_queue' = [send_queue EXCEPT ![s] = Tail(@)]
                /\ UNCHANGED unacknowledged
        /\ cq' = [cq EXCEPT ![s] = Append(@, SendCompletion(flushed, FALSE))]
        /\ UNCHANGED <<next_request_id, pending_requests, completed, errored,
                       recv_queue, control, qp_error, memory>>

=============================================================================
