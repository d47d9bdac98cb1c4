--------------------------- MODULE GroupLifecycle ---------------------------
(* A process group to its end: pg_close at every rank, and what it does to   *)
(* the ranks that still run.  Closing destroys the collective context with   *)
(* its temporary buffer, then the transport: the control sockets, the queue  *)
(* pairs, then the requests left pending with their memory registrations.    *)
EXTENDS VerbsRing

VARIABLE
    lifecycle     \* how far rank r has got with pg_close, or that it was killed

group_vars == <<vars, lifecycle>>

Lives == {"open", "context_destroyed", "sockets_closed", "qps_destroyed", "closed",
          "killed"}

TypeOKGroup == TypeOK /\ lifecycle \in [Ranks -> Lives]

InitGroup == Init /\ lifecycle = [r \in Ranks |-> "open"]

\* The queue pairs of the rank are gone, its sockets are.
QpsDestroyed(r)  == lifecycle[r] \in {"qps_destroyed", "closed", "killed"}
SocketsClosed(r) == QpsDestroyed(r) \/ lifecycle[r] = "sockets_closed"

Advance(r, life) == lifecycle' = [lifecycle EXCEPT ![r] = life]

-----------------------------------------------------------------------------
(* pg_close.                                                                 *)

\* Descriptors written to the rank are lost; those it wrote can still be read.
DropDescriptors(r) == control' = [control EXCEPT ![NextRank(r)] = <<>>]

\* The work requests of a destroyed queue pair are dropped; a message already
\* under way may as well have arrived before.
DropQueues(r) ==
    /\ recv_queue'     = [recv_queue EXCEPT ![r] = <<>>]
    /\ send_queue'     = [send_queue EXCEPT ![r] = <<>>]
    /\ unacknowledged' = [unacknowledged EXCEPT ![r] = <<>>]

DropRequests(r) ==
    /\ pending_requests' = [pending_requests EXCEPT ![r] = {}]
    /\ completed'        = [completed EXCEPT ![r] = {}]
    /\ errored'          = [errored EXCEPT ![r] = {}]
    /\ cq'               = [cq EXCEPT ![r] = <<>>]

\* The application closes its group after its last call, or after a failed one.
\* ring_collective_destroy frees the temporary buffer.
DestroyContext(r) ==
    /\ lifecycle[r] = "open"
    /\ pc[r] = "idle"
    /\ calls[r] = Len(Calls) \/ LastStatus(r) # PG_SUCCESS
    /\ Advance(r, "context_destroyed")
    /\ UNCHANGED vars

CloseSockets(r) ==
    /\ lifecycle[r] = "context_destroyed"
    /\ Advance(r, "sockets_closed")
    /\ DropDescriptors(r)
    /\ UNCHANGED <<memory, program_vars, next_request_id, pending_requests,
                   completed, errored, recv_queue, send_queue, unacknowledged,
                   cq, qp_error>>

\* Mistake: registrations and requests are freed before the queue pairs.
DestroyQps_after_requests(r) ==
    /\ lifecycle[r] = "sockets_closed"
    /\ Advance(r, "qps_destroyed")
    /\ DropRequests(r)
    /\ UNCHANGED <<memory, program_vars, next_request_id, recv_queue, send_queue,
                   unacknowledged, control, qp_error>>

DestroyQps(r) ==
    /\ lifecycle[r] = "sockets_closed"
    /\ Advance(r, "qps_destroyed")
    /\ DropQueues(r)
    /\ UNCHANGED <<memory, program_vars, next_request_id, pending_requests,
                   completed, errored, cq, control, qp_error>>

\* ibv_dereg_mr and delete for every pending request; completion queue, domain
\* and device follow.
DestroyRequests(r) ==
    /\ lifecycle[r] = "qps_destroyed"
    /\ Advance(r, "closed")
    /\ DropRequests(r)
    /\ UNCHANGED <<memory, program_vars, next_request_id, recv_queue, send_queue,
                   unacknowledged, control, qp_error>>

\* SIGPIPE, which nothing handles: the kernel takes everything back.
Killed(r) ==
    /\ Advance(r, "killed")
    /\ DropDescriptors(r)
    /\ DropQueues(r)
    /\ DropRequests(r)
    /\ UNCHANGED <<memory, program_vars, next_request_id, qp_error>>

-----------------------------------------------------------------------------
(* Calls that meet a neighbour which has closed.                             *)

\* The descriptor of a receive whose sender has closed its end: the write is
\* taken by nobody, fails and leaves the receive posted, or kills the process.
PostRecvToClosed(r) ==
    LET state == NewRequest(r, "recv", Tag(r), RecvBytes(r), transfer_mode(r)) IN
    /\ RecvToPost(r)
    /\ TagInRange(step[r], piece[r])
    /\ \/ /\ ~QpFull(r, "recv")
          /\ \/ Killed(r)
             \/ /\ RecvPosted(r, state) \/ ReturnError(r, PG_ERR_TRANSPORT)
                /\ TakeId(r)
                /\ pending_requests' = [pending_requests EXCEPT ![r] = @ \cup {state}]
                /\ recv_queue' = [recv_queue EXCEPT ![r] =
                                    Append(@, RecvWr(state, RecvBytes(r), RecvRegion(r)))]
                /\ UNCHANGED <<completed, errored, send_queue, unacknowledged, cq,
                               control, qp_error, lifecycle>>
       \/ /\ post_receive_throws(r)
          /\ ReturnError(r, PG_ERR_TRANSPORT)
          /\ UNCHANGED lifecycle

\* Mistake: the end of the stream is waited for like the next descriptor.
PostSendToClosed_waiting(r) ==
    /\ SendToPost(r)
    /\ r \notin Ranks
    /\ ReturnError(r, PG_ERR_TRANSPORT)
    /\ UNCHANGED <<verbs_vars, lifecycle>>

\* The next rank closed its end and its last descriptor has been read.
PostSendToClosed(r) ==
    /\ SendToPost(r)
    /\ TagInRange(step[r], piece[r])
    /\ control[NextRank(r)] = <<>>
    /\ ReturnError(r, PG_ERR_TRANSPORT)
    /\ UNCHANGED <<verbs_vars, lifecycle>>

\* What RunRank does, unless a neighbour has closed.
RunOpenRank(r) ==
    /\ lifecycle[r] = "open"
    /\ \/ /\ UNCHANGED lifecycle
          /\ \/ Proceed(r) /\ UNCHANGED verbs_vars
             \/ ~SocketsClosed(PrevRank(r)) /\ PostRecv(r)
             \/ PostSend(r)
             \/ Poll(r)
             \/ PollFails(r)
             \/ Wait(r)
       \/ SocketsClosed(PrevRank(r)) /\ PostRecvToClosed(r)
       \/ SocketsClosed(NextRank(r)) /\ PostSendToClosed(r)

Close(r) == DestroyContext(r) \/ CloseSockets(r) \/ DestroyQps(r) \/ DestroyRequests(r)

\* The queue pair at the other end is gone: no acknowledgement comes any more,
\* the one of a message that had arrived included, and the retries run out.
RetriesExceeded(s) ==
    /\ QpsDestroyed(NextRank(s))
    /\ ~qp_error[s]
    /\ send_queue[s] # <<>> \/ unacknowledged[s] # <<>>
    /\ qp_error' = [qp_error EXCEPT ![s] = TRUE]
    /\ UNCHANGED <<next_request_id, pending_requests, completed, errored,
                   recv_queue, send_queue, unacknowledged, cq, control, memory,
                   program_vars, lifecycle>>

\* The NIC of a rank goes on with what it was given.
Nic(s) ==
    \/ /\ Deliver(s) \/ Acknowledge(s) \/ FlushSend(s)
       /\ UNCHANGED <<program_vars, lifecycle>>
    \/ RetriesExceeded(s)

NextGroup ==
    \E r \in Ranks :
        \/ RunOpenRank(r)
        \/ Close(r)
        \/ Nic(r)
        \/ BreakLink(r) /\ UNCHANGED <<program_vars, lifecycle>>

\* As in VerbsRing; a sender whose peer is gone runs out of retries in the end.
\* Nothing makes a link break, or the application close its group.
FairnessGroup ==
    \A r \in Ranks : WF_group_vars(RunOpenRank(r)) /\ WF_group_vars(Nic(r))

SpecGroup == InitGroup /\ [][NextGroup]_group_vars

FairSpecGroup == SpecGroup /\ FairnessGroup

-----------------------------------------------------------------------------
(* Safety.                                                                   *)

\* verbs_transport.cpp:231: memory stays registered, and its request known, as
\* long as a work request on a live queue pair uses it.
WorkRequestsRegistered ==
    \A r \in Ranks :
        /\ \A k \in 1..Len(recv_queue[r]) : recv_queue[r][k].wr_id \in pending_requests[r]
        /\ \A k \in 1..Len(send_queue[r]) : send_queue[r][k].wr_id \in pending_requests[r]
        /\ \A k \in 1..Len(unacknowledged[r]) :
              unacknowledged[r][k].wr_id \in pending_requests[r]

\* DESIGN.md:158: "Posting never grants permission to reuse a buffer. Only
\* request completion does."  Once the temporary buffer is freed, no receive into
\* it is left posted on a live queue pair.
FreedBufferUnused ==
    \A r \in Ranks : lifecycle[r] \in {"context_destroyed", "sockets_closed"} =>
        \A k \in 1..Len(recv_queue[r]) :
            recv_queue[r][k].sge.buffer # "temporary_buffer"

\* A rank none of whose calls failed closes safely: from then on nothing is
\* written to its buffers, whatever its neighbours still do.
ClosedMemoryUntouched ==
    [][\A r \in Ranks :
          lifecycle[r] # "open" /\ (\A c \in 1..Len(returned[r]) :
                                      returned[r][c].status = PG_SUCCESS)
            => memory'[r] = memory[r]]_group_vars

-----------------------------------------------------------------------------
(* Liveness.                                                                 *)

\* A rank that posts or awaits sends to a rank which has closed is not kept
\* waiting: the closed socket or the retries of its queue pair end the wait.
SendersNotified ==
    \A r \in Ranks :
        (QpsDestroyed(NextRank(r)) /\ pc[r] \in {"postSend", "waitSend"})
            ~> (pc[r] \notin {"postSend", "waitSend"} \/ lifecycle[r] = "killed")

=============================================================================
