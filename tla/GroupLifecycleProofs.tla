------------------------ MODULE GroupLifecycleProofs -------------------------
(* Proofs about a process group to its end: its types, that what the NIC     *)
(* still works on stays registered while ranks close or die, and that a rank *)
(* which closes after calls that all succeeded is not written to any more.   *)
EXTENDS GroupLifecycle, VerbsRingQueues

\* A destroyed queue pair has no work requests, whoever still sends to it.
Emptied(r) ==
    QpsDestroyed(r) =>
        recv_queue[r] = <<>> /\ send_queue[r] = <<>> /\ unacknowledged[r] = <<>>

GroupInv ==
    /\ TrackedInv
    /\ lifecycle \in [Ranks -> Lives]
    /\ \A r \in Ranks : Emptied(r)

-----------------------------------------------------------------------------
(* What closing and dying drop.                                              *)

LEMMA DropQueuesTypes ==
    ASSUME TypeOKVerbs, NEW r \in Ranks, DropQueues(r)
    PROVE  /\ recv_queue'     \in [Ranks -> Seq(RecvWrs)]
           /\ send_queue'     \in [Ranks -> Seq(SendWrs)]
           /\ unacknowledged' \in [Ranks -> Seq(SendWrs)]
           /\ recv_queue'[r] = <<>> /\ send_queue'[r] = <<>> /\ unacknowledged'[r] = <<>>
           /\ \A q \in Ranks \ {r} : /\ recv_queue'[q] = recv_queue[q]
                                     /\ send_queue'[q] = send_queue[q]
                                     /\ unacknowledged'[q] = unacknowledged[q]
<1>1. /\ recv_queue \in [Ranks -> Seq(RecvWrs)] /\ send_queue \in [Ranks -> Seq(SendWrs)]
      /\ unacknowledged \in [Ranks -> Seq(SendWrs)]
    BY DEF TypeOKVerbs
<1>2. <<>> \in Seq(RecvWrs) /\ <<>> \in Seq(SendWrs)
    OBVIOUS
<1> QED
    BY <1>1, <1>2 DEF DropQueues

LEMMA DropRequestsTypes ==
    ASSUME TypeOKVerbs, NEW r \in Ranks, DropRequests(r)
    PROVE  /\ pending_requests' \in [Ranks -> SUBSET RequestStates]
           /\ completed'        \in [Ranks -> SUBSET RequestStates]
           /\ errored'          \in [Ranks -> SUBSET RequestStates]
           /\ cq'               \in [Ranks -> Seq(Completions)]
           /\ pending_requests'[r] = {} /\ completed'[r] = {} /\ cq'[r] = <<>>
           /\ \A q \in Ranks \ {r} : /\ pending_requests'[q] = pending_requests[q]
                                     /\ completed'[q] = completed[q]
                                     /\ cq'[q] = cq[q]
<1>1. /\ pending_requests \in [Ranks -> SUBSET RequestStates]
      /\ completed \in [Ranks -> SUBSET RequestStates]
      /\ errored \in [Ranks -> SUBSET RequestStates] /\ cq \in [Ranks -> Seq(Completions)]
    BY DEF TypeOKVerbs
<1>2. <<>> \in Seq(Completions) /\ {} \in SUBSET RequestStates
    OBVIOUS
<1> QED
    BY <1>1, <1>2 DEF DropRequests

LEMMA DropDescriptorsTypes ==
    ASSUME TypeOKVerbs, NEW r \in Ranks, DropDescriptors(r)
    PROVE  control' \in [Ranks -> Seq(ControlMessages)]
<1>1. control \in [Ranks -> Seq(ControlMessages)] /\ <<>> \in Seq(ControlMessages)
    BY DEF TypeOKVerbs
<1> QED
    BY <1>1 DEF DropDescriptors

\* The requests of destroyed queue pairs stay tracked, ...
LEMMA EmptyQueuesTracked ==
    ASSUME NEW r \in Ranks, Tracked(r), recv_queue'[r] = <<>>, send_queue'[r] = <<>>,
           unacknowledged'[r] = <<>>, next_request_id'[r] = next_request_id[r],
           pending_requests'[r] = pending_requests[r], completed'[r] = completed[r],
           cq'[r] = cq[r]
    PROVE  Tracked(r)'
<1>1. Receiving(r)' = {} /\ Sending(r)' = {} /\ Acknowledged(r)' = {}
    BY NamedEmpty DEF Receiving, Sending, Acknowledged
<1>2. Completing(r)' = Completing(r)
    BY DEF Completing
<1>3. /\ NoneTwice(recv_queue[r], "wr_id")' /\ NoneTwice(send_queue[r], "wr_id")'
      /\ NoneTwice(unacknowledged[r], "wr_id")'
    BY NamedEmpty
<1> QED
    BY <1>1, <1>2, <1>3 DEF Tracked

\* ... and once nothing is pending nothing is named any more.
LEMMA NothingTracked ==
    ASSUME NEW r \in Ranks, recv_queue'[r] = <<>>, send_queue'[r] = <<>>,
           unacknowledged'[r] = <<>>, cq'[r] = <<>>,
           pending_requests'[r] = {}, completed'[r] = {}
    PROVE  Tracked(r)'
<1>1. /\ Receiving(r)' = {} /\ Sending(r)' = {} /\ Acknowledged(r)' = {}
      /\ Completing(r)' = {}
    BY NamedEmpty DEF Receiving, Sending, Acknowledged, Completing
<1>2. /\ NoneTwice(recv_queue[r], "wr_id")' /\ NoneTwice(send_queue[r], "wr_id")'
      /\ NoneTwice(unacknowledged[r], "wr_id")' /\ NoneTwice(cq[r], "wr_id")'
    BY NamedEmpty
<1> QED
    BY <1>1, <1>2 DEF Tracked
-----------------------------------------------------------------------------
(* The steps of closing.                                                     *)

\* A step that leaves the programs alone, and the queues of all ranks but one.
LEMMA ProgramKept ==
    ASSUME TypeInv, UNCHANGED <<program_vars, memory>>, TypeOKVerbs'
    PROVE  TypeInv'
<1>1. TypeOKMemory'
    BY DEF TypeInv, TypeOK, TypeOKMemory
<1> QED
    BY <1>1, ProgramUnchanged DEF TypeInv, TypeOK, ProgramOK

LEMMA EmptiedStable ==
    ASSUME NEW q \in Ranks, Emptied(q), lifecycle'[q] = lifecycle[q],
           recv_queue'[q] = recv_queue[q], send_queue'[q] = send_queue[q],
           unacknowledged'[q] = unacknowledged[q]
    PROVE  Emptied(q)'
BY DEF Emptied, QpsDestroyed

LEMMA AdvanceType ==
    ASSUME lifecycle \in [Ranks -> Lives], NEW r \in Ranks, NEW life \in Lives,
           Advance(r, life)
    PROVE  /\ lifecycle' \in [Ranks -> Lives] /\ lifecycle'[r] = life
           /\ \A q \in Ranks \ {r} : lifecycle'[q] = lifecycle[q]
BY DEF Advance

LEMMA KilledKeeps ==
    ASSUME GroupInv, NEW r \in Ranks, Killed(r)
    PROVE  GroupInv'
<1>1. TypeInv /\ TypeOKVerbs /\ lifecycle \in [Ranks -> Lives] /\ "killed" \in Lives
    BY DEF GroupInv, TrackedInv, TypeInv, TypeOK, Lives
<1>2. /\ DropQueues(r) /\ DropRequests(r) /\ DropDescriptors(r) /\ Advance(r, "killed")
      /\ UNCHANGED <<memory, program_vars, next_request_id, qp_error>>
    BY DEF Killed
<1>3. TypeOKVerbs'
    BY <1>1, <1>2, DropQueuesTypes, DropRequestsTypes, DropDescriptorsTypes DEF TypeOKVerbs
<1>4. TypeInv'
    BY <1>1, <1>2, <1>3, ProgramKept
<1>5. ASSUME NEW q \in Ranks PROVE Tracked(q)' /\ Emptied(q)'
    <2>1. CASE q = r
        BY <1>1, <1>2, <2>1, DropQueuesTypes, DropRequestsTypes, NothingTracked
           DEF Emptied
    <2>2. CASE q # r
        <3>1. SameRequests(q) /\ lifecycle'[q] = lifecycle[q]
            BY <1>1, <1>2, <2>2, DropQueuesTypes, DropRequestsTypes, AdvanceType
               DEF SameRequests
        <3> QED
            BY <3>1, TrackedStable, EmptiedStable DEF GroupInv, TrackedInv, SameRequests
    <2> QED
        BY <2>1, <2>2
<1>6. lifecycle' \in [Ranks -> Lives]
    BY <1>1, <1>2, AdvanceType
<1> QED
    BY <1>4, <1>5, <1>6 DEF GroupInv, TrackedInv

LEMMA CloseKeeps ==
    ASSUME GroupInv, NEW r \in Ranks, Close(r)
    PROVE  GroupInv'
<1>1. TypeInv /\ TypeOKVerbs /\ lifecycle \in [Ranks -> Lives]
    BY DEF GroupInv, TrackedInv, TypeInv, TypeOK
<1>2. UNCHANGED <<program_vars, memory, next_request_id>>
    BY DEF Close, DestroyContext, CloseSockets, DestroyQps, DestroyRequests, vars, verbs_vars
<1>3. CASE DestroyContext(r)
    <2>1. UNCHANGED verbs_vars /\ Advance(r, "context_destroyed") /\ lifecycle[r] = "open"
        BY <1>3 DEF DestroyContext, vars
    <2>2. TypeOKVerbs' /\ \A q \in Ranks : SameRequests(q)
        BY <1>1, <2>1 DEF verbs_vars, TypeOKVerbs, SameRequests
    <2>3. "context_destroyed" \in Lives
        BY DEF Lives
    <2>4. ASSUME NEW q \in Ranks PROVE Emptied(q)'
        <3>1. CASE q = r
            BY <1>1, <2>1, <2>3, <3>1, AdvanceType DEF Emptied, QpsDestroyed
        <3>2. CASE q # r
            BY <1>1, <2>1, <2>2, <2>3, <3>2, AdvanceType, EmptiedStable
               DEF GroupInv, SameRequests
        <3> QED
            BY <3>1, <3>2
    <2> QED
        BY <1>1, <1>2, <2>1, <2>2, <2>3, <2>4, ProgramKept, TrackedStable, AdvanceType
           DEF GroupInv, TrackedInv
<1>4. CASE CloseSockets(r)
    <2>1. /\ DropDescriptors(r) /\ Advance(r, "sockets_closed")
          /\ UNCHANGED <<next_request_id, pending_requests, completed, errored, recv_queue,
                         send_queue, unacknowledged, cq, qp_error>>
        BY <1>4 DEF CloseSockets
    <2>2. TypeOKVerbs' /\ \A q \in Ranks : SameRequests(q)
        BY <1>1, <2>1, DropDescriptorsTypes DEF TypeOKVerbs, SameRequests
    <2>3. "sockets_closed" \in Lives
        BY DEF Lives
    <2>4. ASSUME NEW q \in Ranks PROVE Emptied(q)'
        <3>1. CASE q = r
            BY <1>1, <2>1, <2>3, <3>1, AdvanceType DEF Emptied, QpsDestroyed
        <3>2. CASE q # r
            BY <1>1, <2>1, <2>2, <2>3, <3>2, AdvanceType, EmptiedStable
               DEF GroupInv, SameRequests
        <3> QED
            BY <3>1, <3>2
    <2> QED
        BY <1>1, <1>2, <2>1, <2>2, <2>3, <2>4, ProgramKept, TrackedStable, AdvanceType
           DEF GroupInv, TrackedInv
<1>5. CASE DestroyQps(r)
    <2>1. /\ DropQueues(r) /\ Advance(r, "qps_destroyed")
          /\ UNCHANGED <<next_request_id, pending_requests, completed, errored, cq,
                         control, qp_error>>
        BY <1>5 DEF DestroyQps
    <2>2. TypeOKVerbs' /\ "qps_destroyed" \in Lives
        BY <1>1, <2>1, DropQueuesTypes DEF TypeOKVerbs, Lives
    <2>3. ASSUME NEW q \in Ranks PROVE Tracked(q)' /\ Emptied(q)'
        <3>1. CASE q = r
            BY <1>1, <2>1, <3>1, DropQueuesTypes, EmptyQueuesTracked
               DEF Emptied, GroupInv, TrackedInv
        <3>2. CASE q # r
            <4>1. SameRequests(q) /\ lifecycle'[q] = lifecycle[q]
                BY <1>1, <2>1, <2>2, <3>2, DropQueuesTypes, AdvanceType DEF SameRequests
            <4> QED
                BY <4>1, TrackedStable, EmptiedStable DEF GroupInv, TrackedInv, SameRequests
        <3> QED
            BY <3>1, <3>2
    <2> QED
        BY <1>1, <1>2, <2>1, <2>2, <2>3, ProgramKept, AdvanceType DEF GroupInv, TrackedInv
<1>6. CASE DestroyRequests(r)
    <2>1. /\ DropRequests(r) /\ Advance(r, "closed") /\ lifecycle[r] = "qps_destroyed"
          /\ UNCHANGED <<next_request_id, recv_queue, send_queue, unacknowledged, control,
                         qp_error>>
        BY <1>6 DEF DestroyRequests
    <2>2. TypeOKVerbs' /\ "closed" \in Lives
        BY <1>1, <2>1, DropRequestsTypes DEF TypeOKVerbs, Lives
    <2>3. recv_queue[r] = <<>> /\ send_queue[r] = <<>> /\ unacknowledged[r] = <<>>
        BY <2>1 DEF GroupInv, Emptied, QpsDestroyed
    <2>4. ASSUME NEW q \in Ranks PROVE Tracked(q)' /\ Emptied(q)'
        <3>1. CASE q = r
            BY <1>1, <2>1, <2>3, <3>1, DropRequestsTypes, NothingTracked DEF Emptied
        <3>2. CASE q # r
            <4>1. SameRequests(q) /\ lifecycle'[q] = lifecycle[q]
                BY <1>1, <2>1, <2>2, <3>2, DropRequestsTypes, AdvanceType DEF SameRequests
            <4> QED
                BY <4>1, TrackedStable, EmptiedStable DEF GroupInv, TrackedInv, SameRequests
        <3> QED
            BY <3>1, <3>2
    <2> QED
        BY <1>1, <1>2, <2>1, <2>2, <2>4, ProgramKept, AdvanceType DEF GroupInv, TrackedInv
<1> QED
    BY <1>3, <1>4, <1>5, <1>6 DEF Close

-----------------------------------------------------------------------------
(* The steps of a rank that still runs.                                      *)

\* A receive is posted whose descriptor nobody will read (post_receive_previous).
PostsUnannounced(r) ==
    LET state == NewRequest(r, "recv", Tag(r), RecvBytes(r), transfer_mode(r)) IN
    /\ RecvToPost(r)
    /\ TagInRange(step[r], piece[r])
    /\ RecvPosted(r, state) \/ ReturnError(r, PG_ERR_TRANSPORT)
    /\ TakeId(r)
    /\ pending_requests' = [pending_requests EXCEPT ![r] = @ \cup {state}]
    /\ recv_queue' = [recv_queue EXCEPT ![r] =
                        Append(@, RecvWr(state, RecvBytes(r), RecvRegion(r)))]
    /\ UNCHANGED <<completed, errored, send_queue, unacknowledged, cq, control, qp_error>>

\* The end of the stream ends the call (post_send_next).
MeetsEnd(r) == ReturnError(r, PG_ERR_TRANSPORT) /\ UNCHANGED verbs_vars

LEMMA OpenSteps ==
    ASSUME NEW r \in Ranks, RunOpenRank(r)
    PROVE  /\ lifecycle[r] = "open"
           /\ \/ Killed(r)
              \/ /\ RunRank(r) \/ PostsUnannounced(r) \/ MeetsEnd(r)
                 /\ UNCHANGED lifecycle
<1>1. ASSUME PostRecvToClosed(r)
      PROVE  \/ Killed(r)
             \/ (RunRank(r) \/ PostsUnannounced(r)) /\ UNCHANGED lifecycle
    <2>1. \/ Killed(r)
          \/ PostsUnannounced(r) /\ UNCHANGED lifecycle
          \/ /\ post_receive_throws(r) /\ ReturnError(r, PG_ERR_TRANSPORT)
             /\ UNCHANGED lifecycle
        BY <1>1 DEF PostRecvToClosed, PostsUnannounced
    <2>2. RecvToPost(r) /\ TagInRange(step[r], piece[r])
        BY <1>1 DEF PostRecvToClosed
    <2> QED
        BY <2>1, <2>2 DEF RunRank, PostRecv
<1>2. ASSUME PostSendToClosed(r)
      PROVE  MeetsEnd(r) /\ UNCHANGED lifecycle
    BY <1>2 DEF PostSendToClosed, MeetsEnd
<1> QED
    BY <1>1, <1>2 DEF RunOpenRank, RunRank

LEMMA UnannouncedTypes ==
    ASSUME TypeInv, NEW r \in Ranks, PostsUnannounced(r)
    PROVE  /\ TypeInv'
           /\ RecvRegion(r) \in Regions /\ RecvBytes(r) \in Nat /\ Tag(r) \in Nat
<1> DEFINE state == NewRequest(r, "recv", Tag(r), RecvBytes(r), transfer_mode(r))
           recv  == RecvWr(state, RecvBytes(r), RecvRegion(r))
<1>1. ProgramOK /\ TypeOKVerbs /\ PG_ERR_TRANSPORT \in Statuses
    BY DEF TypeInv, TypeOK, ProgramOK, Statuses
<1>2. RecvToPost(r) /\ RecvRegion(r) \in Regions /\ RecvBytes(r) \in Nat /\ Tag(r) \in Nat
    BY <1>1, PostedRegions, TagTypes DEF PostsUnannounced
<1>3. state \in RequestStates
    BY <1>1, <1>2, NewRequestType
<1>4. recv \in RecvWrs
    BY <1>2, <1>3, EmptyRegion DEF RecvWr, RecvWrs
<1>5. /\ RecvPosted(r, state) \/ ReturnError(r, PG_ERR_TRANSPORT)
      /\ next_request_id' = [next_request_id EXCEPT ![r] = @ + 1]
      /\ pending_requests' = [pending_requests EXCEPT ![r] = @ \cup {state}]
      /\ recv_queue' = [recv_queue EXCEPT ![r] = Append(@, recv)]
      /\ UNCHANGED <<completed, errored, send_queue, unacknowledged, cq, control, qp_error>>
    BY DEF PostsUnannounced, TakeId
<1>6. TypeOKMemory' /\ ProgramOK' /\ \A q \in Ranks : RecvsInBlock(q)'
    BY <1>1, <1>2, <1>3, <1>5, RecvPostedTypes, ReturnErrorTypes
<1> HIDE DEF state, recv
<1>7. TypeOKVerbs'
    BY <1>1, <1>3, <1>4, <1>5 DEF TypeOKVerbs
<1> QED
    BY <1>2, <1>6, <1>7 DEF TypeInv, TypeOK, ProgramOK

LEMMA UnannouncedTracked ==
    ASSUME TrackedInv, NEW r \in Ranks, PostsUnannounced(r)
    PROVE  TrackedInv'
<1>1. TypeInv /\ TypeOKVerbs /\ \A q \in Ranks : Tracked(q)
    BY DEF TrackedInv, TypeInv, TypeOK
<1>2. TypeInv' /\ RecvRegion(r) \in Regions /\ RecvBytes(r) \in Nat /\ Tag(r) \in Nat
    BY <1>1, UnannouncedTypes
<1>3. \A q \in Ranks : Tracked(q)'
    BY <1>1, <1>2, PostReceiveTracked DEF PostsUnannounced
<1> QED
    BY <1>2, <1>3 DEF TrackedInv

\* A step of rank r that is one of its program and its transport touches neither
\* the program nor the requests of another rank.
LEMMA OpenOthers ==
    ASSUME TypeInv, NEW r \in Ranks,
           RunRank(r) \/ PostsUnannounced(r) \/ MeetsEnd(r)
    PROVE  ProgramOthers(r) /\ VerbsOthers(r)
<1>1. CASE RunRank(r)
    BY <1>1, RunOthers
<1>2. CASE PostsUnannounced(r)
    <2>1. ASSUME NEW request, RecvPosted(r, request) PROVE ProgramOthers(r)
        BY <2>1 DEF RecvPosted, ProgramOthers, TypeInv, TypeOK, TypeOKProgram
    <2>2. ProgramOthers(r)
        BY <1>2, <2>1, ReturnErrorOthers DEF PostsUnannounced
    <2>3. VerbsOthers(r)
        BY <1>2 DEF PostsUnannounced, TakeId, VerbsOthers, SameRequests, TypeInv, TypeOK,
                    TypeOKVerbs
    <2> QED
        BY <2>2, <2>3
<1>3. CASE MeetsEnd(r)
    BY <1>3, ReturnErrorOthers DEF MeetsEnd, VerbsOthers, SameRequests, verbs_vars
<1> QED
    BY <1>1, <1>2, <1>3

LEMMA OpenKeeps ==
    ASSUME GroupInv, NEW r \in Ranks, RunOpenRank(r)
    PROVE  GroupInv'
<1>1. TrackedInv /\ TypeInv /\ TypeOKVerbs /\ lifecycle \in [Ranks -> Lives]
    BY DEF GroupInv, TrackedInv, TypeInv, TypeOK
<1>2. CASE Killed(r)
    BY <1>2, KilledKeeps
<1>3. CASE /\ RunRank(r) \/ PostsUnannounced(r) \/ MeetsEnd(r)
           /\ UNCHANGED lifecycle
    <2>1. TrackedInv'
        <3>1. CASE RunRank(r)
            BY <1>1, <3>1, NextTracked DEF Next
        <3>2. CASE PostsUnannounced(r)
            BY <1>1, <3>2, UnannouncedTracked
        <3>3. CASE MeetsEnd(r)
            <4>1. TypeOKVerbs' /\ \A q \in Ranks : SameRequests(q)
                BY <1>1, <3>3 DEF MeetsEnd, verbs_vars, TypeOKVerbs, SameRequests
            <4>2. PG_ERR_TRANSPORT \in Statuses /\ ReturnError(r, PG_ERR_TRANSPORT)
                BY <3>3 DEF MeetsEnd, Statuses
            <4>3. TypeOKMemory' /\ ProgramOK' /\ \A q \in Ranks : RecvsInBlock(q)'
                BY <1>1, <4>2, ReturnErrorTypes
            <4> QED
                BY <1>1, <4>1, <4>3, TrackedStable
                   DEF TrackedInv, TypeInv, TypeOK, ProgramOK
        <3> QED
            BY <1>3, <3>1, <3>2, <3>3
    <2>2. ASSUME NEW q \in Ranks PROVE Emptied(q)'
        <3>1. CASE q = r
            BY <1>3, <3>1, OpenSteps DEF Emptied, QpsDestroyed
        <3>2. CASE q # r
            BY <1>1, <1>3, <3>2, OpenOthers, EmptiedStable
               DEF VerbsOthers, SameRequests, GroupInv
        <3> QED
            BY <3>1, <3>2
    <2> QED
        BY <1>1, <1>3, <2>1, <2>2 DEF GroupInv
<1> QED
    BY <1>2, <1>3, OpenSteps

-----------------------------------------------------------------------------
(* The steps of the fabric.                                                  *)

LEMMA FabricEmptied ==
    ASSUME TypeOKVerbs, NEW s \in Ranks,
           Deliver(s) \/ Acknowledge(s) \/ BreakLink(s) \/ FlushSend(s),
           NEW q \in Ranks, recv_queue[q] = <<>>, send_queue[q] = <<>>,
           unacknowledged[q] = <<>>
    PROVE  recv_queue'[q] = <<>> /\ send_queue'[q] = <<>> /\ unacknowledged'[q] = <<>>
<1>1. /\ recv_queue \in [Ranks -> Seq(RecvWrs)] /\ send_queue \in [Ranks -> Seq(SendWrs)]
      /\ unacknowledged \in [Ranks -> Seq(SendWrs)]
    BY DEF TypeOKVerbs
<1>2. CASE Deliver(s)
    <2>1. q # s /\ q # NextRank(s)
        BY <1>2 DEF Deliver
    <2> QED
        BY <1>1, <1>2, <2>1 DEF Deliver
<1>3. CASE Acknowledge(s)
    <2>1. q # s
        BY <1>3 DEF Acknowledge
    <2> QED
        BY <1>1, <1>3, <2>1 DEF Acknowledge
<1>4. CASE BreakLink(s)
    BY <1>4 DEF BreakLink
<1>5. CASE FlushSend(s)
    <2>1. <<>> \o <<>> = <<>>
        OBVIOUS
    <2>2. q # s
        BY <1>5, <2>1 DEF FlushSend
    <2> QED
        BY <1>1, <1>5, <2>2 DEF FlushSend
<1> QED
    BY <1>2, <1>3, <1>4, <1>5

LEMMA FabricKeeps ==
    ASSUME GroupInv, NEW s \in Ranks,
           Nic(s) \/ (BreakLink(s) /\ UNCHANGED <<program_vars, lifecycle>>)
    PROVE  GroupInv'
<1>1. TrackedInv /\ TypeInv /\ TypeOKVerbs /\ lifecycle \in [Ranks -> Lives]
    BY DEF GroupInv, TrackedInv, TypeInv, TypeOK
<1>2. CASE RetriesExceeded(s)
    <2>1. /\ qp_error' = [qp_error EXCEPT ![s] = TRUE]
          /\ UNCHANGED <<next_request_id, pending_requests, completed, errored, recv_queue,
                         send_queue, unacknowledged, cq, control, memory, program_vars,
                         lifecycle>>
        BY <1>2 DEF RetriesExceeded
    <2>2. TypeOKVerbs' /\ \A q \in Ranks : SameRequests(q)
        BY <1>1, <2>1 DEF TypeOKVerbs, SameRequests
    <2>3. \A q \in Ranks : Emptied(q)'
        BY <2>1, EmptiedStable DEF GroupInv
    <2> QED
        BY <1>1, <2>1, <2>2, <2>3, ProgramKept, TrackedStable DEF GroupInv, TrackedInv
<1>3. CASE /\ Deliver(s) \/ Acknowledge(s) \/ BreakLink(s) \/ FlushSend(s)
           /\ UNCHANGED <<program_vars, lifecycle>>
    <2>1. TrackedInv'
        BY <1>1, <1>3, NextTracked DEF Next, Fabric
    <2>2. \A q \in Ranks : Emptied(q)'
        BY <1>1, <1>3, FabricEmptied DEF GroupInv, Emptied, QpsDestroyed
    <2> QED
        BY <1>1, <1>3, <2>1, <2>2 DEF GroupInv
<1> QED
    BY <1>2, <1>3 DEF Nic

-----------------------------------------------------------------------------
(* What stays registered.                                                    *)

LEMMA InitGroupKeeps == InitGroup => GroupInv
<1> SUFFICES ASSUME InitGroup PROVE GroupInv
    OBVIOUS
<1>1. TrackedInv
    BY InitTracked DEF InitGroup
<1>2. lifecycle = [r \in Ranks |-> "open"] /\ "open" \in Lives
    BY DEF InitGroup, Lives
<1>3. \A r \in Ranks : Emptied(r)
    BY <1>2 DEF Emptied, QpsDestroyed
<1> QED
    BY <1>1, <1>2, <1>3 DEF GroupInv

LEMMA NextGroupKeeps == GroupInv /\ [NextGroup]_group_vars => GroupInv'
<1> SUFFICES ASSUME GroupInv, [NextGroup]_group_vars PROVE GroupInv'
    OBVIOUS
<1>1. CASE UNCHANGED group_vars
    <2>1. UNCHANGED <<vars, lifecycle, recv_queue, send_queue, unacknowledged>>
        BY <1>1 DEF group_vars, vars, verbs_vars
    <2>2. TrackedInv'
        BY <2>1, NextTracked DEF GroupInv
    <2> QED
        BY <2>1, <2>2, EmptiedStable DEF GroupInv
<1>2. CASE NextGroup
    <2>1. PICK r \in Ranks : \/ RunOpenRank(r) \/ Close(r) \/ Nic(r)
                             \/ BreakLink(r) /\ UNCHANGED <<program_vars, lifecycle>>
        BY <1>2, Zenon DEF NextGroup
    <2>2. CASE RunOpenRank(r)
        BY <2>2, OpenKeeps
    <2>3. CASE Close(r)
        BY <2>3, CloseKeeps
    <2>4. CASE Nic(r) \/ (BreakLink(r) /\ UNCHANGED <<program_vars, lifecycle>>)
        BY <2>4, FabricKeeps
    <2> QED
        BY <2>1, <2>2, <2>3, <2>4
<1> QED
    BY <1>1, <1>2

\* Every variable keeps its type while ranks close, die or go on: what is posted
\* to a neighbour that has closed lies inside its buffers too
\* (post_receive_previous, VerbsTransport::close).
THEOREM GroupTypeCorrect == SpecGroup => []TypeOKGroup
<1>1. GroupInv => TypeOKGroup
    BY DEF GroupInv, TrackedInv, TypeInv, TypeOKGroup
<1> QED
    BY <1>1, InitGroupKeeps, NextGroupKeeps, PTL DEF SpecGroup

\* The memory of a work request stays registered and its request known as long
\* as a live queue pair holds it, in whatever state ranks close, fail or are
\* killed: the queue pairs go before the registrations (verbs_transport.cpp:229).
THEOREM WorkRequestsStayRegistered == SpecGroup => []WorkRequestsRegistered
<1>1. ASSUME GroupInv PROVE WorkRequestsRegistered
    <2>1. ASSUME NEW r \in Ranks
          PROVE  /\ \A k \in 1..Len(recv_queue[r]) :
                        recv_queue[r][k].wr_id \in pending_requests[r]
                 /\ \A k \in 1..Len(send_queue[r]) :
                        send_queue[r][k].wr_id \in pending_requests[r]
                 /\ \A k \in 1..Len(unacknowledged[r]) :
                        unacknowledged[r][k].wr_id \in pending_requests[r]
        <3>1. Receiving(r) \cup Sending(r) \cup Acknowledged(r) \subseteq pending_requests[r]
            BY <1>1 DEF GroupInv, TrackedInv, Tracked
        <3>2. /\ \A k \in 1..Len(recv_queue[r]) : recv_queue[r][k]["wr_id"] \in Receiving(r)
              /\ \A k \in 1..Len(send_queue[r]) : send_queue[r][k]["wr_id"] \in Sending(r)
              /\ \A k \in 1..Len(unacknowledged[r]) :
                    unacknowledged[r][k]["wr_id"] \in Acknowledged(r)
            BY DEF Receiving, Sending, Acknowledged, Named
        <3> QED
            BY <3>1, <3>2
    <2> QED
        BY <2>1 DEF WorkRequestsRegistered
<1> QED
    BY <1>1, InitGroupKeeps, NextGroupKeeps, PTL DEF SpecGroup

\* A neighbour that closes or dies makes no completion arrive that names a
\* request freed or completed before (handle_completion, consume_request).
THEOREM GroupCompletionsKnown == SpecGroup => []CompletionsKnown
<1>1. GroupInv => CompletionsKnown
    BY TrackedCompletions DEF GroupInv
<1> QED
    BY <1>1, InitGroupKeeps, NextGroupKeeps, PTL DEF SpecGroup

-----------------------------------------------------------------------------
(* A rank that closes after calls that all succeeded.                        *)

Succeeded(r) == \A c \in 1..Len(returned[r]) : returned[r][c].status = PG_SUCCESS

\* While such a rank runs, its pending requests are those it waits for; once it
\* has closed, no receive of its is left for a neighbour to write through.
ClosesClean(r) ==
    Succeeded(r) =>
        /\ lifecycle[r] = "open" => HeldAt(r)
        /\ lifecycle[r] # "open" => recv_queue[r] = <<>>

ClosedInv == GroupInv /\ \A r \in Ranks : ClosesClean(r)

LEMMA LastSucceeds ==
    ASSUME NEW S, NEW list \in Seq(S), list # <<>>,
           \A c \in 1..Len(list) : list[c].status = PG_SUCCESS
    PROVE  list[Len(list)].status = PG_SUCCESS
<1>1. Len(list) \in 1..Len(list)
    OBVIOUS
<1> QED
    BY <1>1

LEMMA SucceededUnfailed ==
    ASSUME TypeInv, NEW r \in Ranks
    PROVE  Succeeded(r) => Unfailed(r)
<1>1. PICK S : returned[r] \in Seq(S)
    BY DEF TypeInv, TypeOK, TypeOKProgram
<1> QED
    BY <1>1, LastSucceeds DEF Succeeded, Unfailed, LastStatus

LEMMA SucceededUnfailedNext ==
    ASSUME TypeInv', NEW r \in Ranks
    PROVE  Succeeded(r)' => Unfailed(r)'
<1>1. PICK S : returned'[r] \in Seq(S)
    BY DEF TypeInv, TypeOK, TypeOKProgram
<1> QED
    BY <1>1, LastSucceeds DEF Succeeded, Unfailed, LastStatus

\* A step of a rank records at most one more call.
LEMMA ReturnsOnce ==
    ASSUME TypeInv, NEW r \in Ranks, RunRank(r) \/ PostsUnannounced(r) \/ MeetsEnd(r)
    PROVE  UNCHANGED returned \/ \E status \in Statuses : Return(r, status)
<1>1. {PG_SUCCESS, PG_ERR_INVALID_ARGUMENT, PG_ERR_TRANSPORT, PG_ERR_UNSUPPORTED_DATATYPE,
       PG_ERR_UNSUPPORTED_OPERATION, PG_ERR_TAG_RANGE} \subseteq Statuses
    BY DEF Statuses
<1>2. CASE Loop(r) \/ BeginCall(r)
    BY <1>2 DEF Loop, BeginBatch, NextStep, BeginAllGather, EndPostRecv, EndPostSend,
                EndWaitRecv, EndBatch, BeginCall
<1>3. CASE RefuseCall(r) \/ TagOutOfRange(r) \/ ReturnSuccess(r)
    BY <1>1, <1>3 DEF RefuseCall, TagOutOfRange, ReturnSuccess, ReturnError
<1>4. CASE PostRecv(r) \/ PostSend(r)
    BY <1>1, <1>4 DEF PostRecv, PostSend, ReturnError, RecvPosted, SendPosted
<1>5. CASE Poll(r)
    BY <1>5 DEF Poll, program_vars
<1>6. CASE PollFails(r) \/ MeetsEnd(r)
    BY <1>1, <1>6 DEF PollFails, MeetsEnd, ReturnError
<1>7. CASE Wait(r)
    BY <1>1, <1>7 DEF Wait, RecvWaited, SendWaited, OperationUnsupported, ReturnError
<1>8. CASE PostsUnannounced(r)
    BY <1>1, <1>8 DEF PostsUnannounced, ReturnError, RecvPosted
<1> QED
    BY <1>2, <1>3, <1>4, <1>5, <1>6, <1>7, <1>8 DEF RunRank, Proceed, Loop

LEMMA SucceededBefore ==
    ASSUME TypeInv, NEW r \in Ranks, RunRank(r) \/ PostsUnannounced(r) \/ MeetsEnd(r)
    PROVE  Succeeded(r)' => Succeeded(r)
<1>1. CASE UNCHANGED returned
    BY <1>1 DEF Succeeded
<1>2. CASE \E status \in Statuses : Return(r, status)
    <2>1. PICK status \in Statuses : Return(r, status)
        BY <1>2
    <2>2. PICK S, entry : /\ returned[r] \in Seq(S) /\ entry \in S
                          /\ returned'[r] = Append(returned[r], entry)
        <3> DEFINE entry == [status |-> status, recvbuf |-> memory[r].workbuf]
                   Entries == [status  : Statuses,
                               recvbuf : [Elements("workbuf") -> Seq(Contributions)]]
        <3>1. returned \in [Ranks -> Seq(Entries)]
            BY DEF TypeInv, TypeOK, TypeOKProgram
        <3>2. returned' = [returned EXCEPT ![r] = Append(@, entry)]
            BY <2>1 DEF Return
        <3>3. entry \in Entries
            BY DEF TypeInv, TypeOK, TypeOKMemory
        <3> HIDE DEF entry, Entries
        <3>4. returned[r] \in Seq(Entries) /\ returned'[r] = Append(returned[r], entry)
            BY <3>1, <3>2
        <3> QED
            BY <3>3, <3>4
    <2>3. ASSUME NEW c \in 1..Len(returned[r])
          PROVE  c \in 1..Len(returned'[r]) /\ returned'[r][c] = returned[r][c]
        BY <2>2
    <2> QED
        BY <2>3 DEF Succeeded
<1> QED
    BY <1>1, <1>2, ReturnsOnce

LEMMA OpenHeld ==
    ASSUME TypeInv, TypeInv', NEW r \in Ranks, Tracked(r), HeldAt(r), Succeeded(r),
           RunRank(r) \/ PostsUnannounced(r) \/ MeetsEnd(r), Succeeded(r)'
    PROVE  HeldAt(r)'
<1>1. Holding(r)
    BY SucceededUnfailed DEF Holding, FailedStaysOut
<1>2. Unfailed(r)'
    BY SucceededUnfailedNext
<1>3. ~ReturnError(r, PG_ERR_TRANSPORT)
    <2>1. PG_ERR_TRANSPORT \in Statuses /\ PG_ERR_TRANSPORT # PG_SUCCESS
        BY DEF Statuses, PG_SUCCESS, PG_ERR_TRANSPORT
    <2> QED
        BY <1>2, <2>1, ReturnFails DEF ReturnError
<1>4. CASE RunRank(r)
    BY <1>1, <1>4, RunHeld
<1>5. CASE PostsUnannounced(r)
    <2> DEFINE state == NewRequest(r, "recv", Tag(r), RecvBytes(r), transfer_mode(r))
    <2>1. TypeOKVerbs /\ RecvBytes(r) \in Nat /\ Tag(r) \in Nat
        BY <1>5, UnannouncedTypes DEF TypeInv, TypeOK
    <2>2. /\ RecvToPost(r) /\ RecvPosted(r, state)
          /\ pending_requests' = [pending_requests EXCEPT ![r] = @ \cup {state}]
        BY <1>3, <1>5 DEF PostsUnannounced
    <2>3. state \in RequestStates /\ state.kind = "recv" /\ state.id = next_request_id[r]
        BY <2>1, NewRequestType DEF NewRequest, RequestState
    <2> HIDE DEF state
    <2>4. pending_requests'[r] = pending_requests[r] \cup {state}
        BY <2>1, <2>2 DEF TypeOKVerbs
    <2>5. state \notin pending_requests[r]
        BY <2>1, <2>3 DEF Tracked, TypeOKVerbs
    <2> QED
        BY <1>1, <2>2, <2>3, <2>4, <2>5, RecvPostedHeld
<1>6. CASE MeetsEnd(r)
    BY <1>3, <1>6 DEF MeetsEnd
<1> QED
    BY <1>4, <1>5, <1>6

\* Between its calls a rank whose calls all succeeded has nothing posted.
LEMMA IdleEmpty ==
    ASSUME TypeInv, NEW r \in Ranks, Tracked(r), HeldAt(r), Succeeded(r), pc[r] = "idle"
    PROVE  recv_queue[r] = <<>>
<1>1. pending_requests[r] = {}
    BY SucceededUnfailed, NamedEmpty DEF HeldAt, Kept, Held, InBatch, TypeInv, RecvsInBlock
<1>2. Named(recv_queue[r], "wr_id") = {}
    BY <1>1 DEF Tracked, Receiving
<1>3. recv_queue[r] \in Seq(RecvWrs)
    BY DEF TypeInv, TypeOK, TypeOKVerbs
<1> QED
    BY <1>2, <1>3, NamedNothing

LEMMA CleanStable ==
    ASSUME NEW q \in Ranks, ClosesClean(q), lifecycle'[q] = lifecycle[q],
           recv_queue'[q] = recv_queue[q], pending_requests'[q] = pending_requests[q],
           recv_requests'[q] = recv_requests[q], send_requests'[q] = send_requests[q],
           returned'[q] = returned[q], pc'[q] = pc[q], piece'[q] = piece[q],
           batch'[q] = batch[q]
    PROVE  ClosesClean(q)'
<1>1. Succeeded(q)' = Succeeded(q)
    BY DEF Succeeded
<1>2. HeldAt(q) => HeldAt(q)'
    BY HeldStable
<1> QED
    BY <1>1, <1>2 DEF ClosesClean

LEMMA OpenClean ==
    ASSUME ClosedInv, GroupInv', NEW r \in Ranks, RunOpenRank(r)
    PROVE  \A q \in Ranks : ClosesClean(q)'
<1>1. /\ TypeInv /\ TypeInv' /\ Tracked(r) /\ ClosesClean(r)
      /\ TypeOKVerbs /\ lifecycle \in [Ranks -> Lives] /\ lifecycle[r] = "open"
    BY OpenSteps DEF ClosedInv, GroupInv, TrackedInv, TypeInv, TypeOK
<1>2. CASE Killed(r)
    <2>1. /\ DropQueues(r) /\ DropRequests(r) /\ Advance(r, "killed")
          /\ UNCHANGED program_vars /\ "killed" \in Lives
        BY <1>2 DEF Killed, Lives
    <2>2. recv_queue'[r] = <<>> /\ lifecycle'[r] = "killed"
        BY <1>1, <2>1, DropQueuesTypes, AdvanceType
    <2>3. ClosesClean(r)'
        BY <2>2 DEF ClosesClean
    <2>4. ASSUME NEW q \in Ranks \ {r} PROVE ClosesClean(q)'
        <3>1. /\ recv_queue'[q] = recv_queue[q] /\ lifecycle'[q] = lifecycle[q]
              /\ pending_requests'[q] = pending_requests[q]
            BY <1>1, <2>1, DropQueuesTypes, DropRequestsTypes, AdvanceType
        <3> QED
            BY <2>1, <3>1, CleanStable DEF ClosedInv, program_vars
    <2> QED
        BY <2>3, <2>4
<1>3. CASE /\ RunRank(r) \/ PostsUnannounced(r) \/ MeetsEnd(r)
           /\ UNCHANGED lifecycle
    <2>1. ClosesClean(r)'
        <3>1. ASSUME Succeeded(r)' PROVE HeldAt(r)'
            <4>1. Succeeded(r)
                BY <1>1, <1>3, <3>1, SucceededBefore
            <4> QED
                BY <1>1, <1>3, <3>1, <4>1, OpenHeld DEF ClosesClean
        <3> QED
            BY <1>1, <1>3, <3>1 DEF ClosesClean
    <2>2. ASSUME NEW q \in Ranks \ {r} PROVE ClosesClean(q)'
        BY <1>1, <1>3, OpenOthers, CleanStable
           DEF ClosedInv, ProgramOthers, VerbsOthers, SameRequests
    <2> QED
        BY <2>1, <2>2
<1> QED
    BY <1>2, <1>3, OpenSteps

LEMMA CloseClean ==
    ASSUME ClosedInv, NEW r \in Ranks, Close(r)
    PROVE  \A q \in Ranks : ClosesClean(q)'
<1>1. /\ TypeInv /\ Tracked(r) /\ ClosesClean(r)
      /\ TypeOKVerbs /\ lifecycle \in [Ranks -> Lives]
    BY DEF ClosedInv, GroupInv, TrackedInv, TypeInv, TypeOK
<1>2. UNCHANGED program_vars
    BY DEF Close, DestroyContext, CloseSockets, DestroyQps, DestroyRequests, vars
<1>3. PICK life \in Lives \ {"open"} : Advance(r, life)
    BY DEF Close, DestroyContext, CloseSockets, DestroyQps, DestroyRequests, Lives
<1>4. /\ lifecycle'[r] # "open" /\ \A q \in Ranks \ {r} : lifecycle'[q] = lifecycle[q]
    BY <1>1, <1>3, AdvanceType
<1>5. /\ \A q \in Ranks \ {r} : /\ recv_queue'[q] = recv_queue[q]
                                /\ pending_requests'[q] = pending_requests[q]
      /\ recv_queue'[r] = recv_queue[r] \/ recv_queue'[r] = <<>>
    <2>1. CASE DestroyContext(r) \/ CloseSockets(r)
        BY <2>1 DEF DestroyContext, CloseSockets, vars, verbs_vars
    <2>2. CASE DestroyQps(r)
        BY <1>1, <2>2, DropQueuesTypes DEF DestroyQps
    <2>3. CASE DestroyRequests(r)
        BY <1>1, <2>3, DropRequestsTypes DEF DestroyRequests
    <2> QED
        BY <2>1, <2>2, <2>3 DEF Close
<1>6. ASSUME Succeeded(r) PROVE recv_queue[r] = <<>>
    <2>1. CASE DestroyContext(r)
        BY <1>1, <1>6, <2>1, IdleEmpty DEF DestroyContext, ClosesClean
    <2>2. CASE CloseSockets(r) \/ DestroyQps(r) \/ DestroyRequests(r)
        BY <1>1, <1>6, <2>2 DEF CloseSockets, DestroyQps, DestroyRequests, ClosesClean
    <2> QED
        BY <2>1, <2>2 DEF Close
<1>7. ClosesClean(r)'
    <2>1. Succeeded(r)' = Succeeded(r)
        BY <1>2 DEF Succeeded, program_vars
    <2> QED
        BY <1>4, <1>5, <1>6, <2>1 DEF ClosesClean
<1>8. ASSUME NEW q \in Ranks \ {r} PROVE ClosesClean(q)'
    BY <1>2, <1>4, <1>5, CleanStable DEF ClosedInv, program_vars
<1> QED
    BY <1>7, <1>8

LEMMA FabricClean ==
    ASSUME ClosedInv, NEW s \in Ranks,
           Nic(s) \/ (BreakLink(s) /\ UNCHANGED <<program_vars, lifecycle>>)
    PROVE  \A q \in Ranks : ClosesClean(q)'
<1>1. recv_queue \in [Ranks -> Seq(RecvWrs)]
    BY DEF ClosedInv, GroupInv, TrackedInv, TypeInv, TypeOK, TypeOKVerbs
<1>2. UNCHANGED <<program_vars, lifecycle, pending_requests>>
    BY DEF Nic, Deliver, Acknowledge, FlushSend, BreakLink, RetriesExceeded
<1>3. ASSUME NEW q \in Ranks
      PROVE  recv_queue'[q] = recv_queue[q] \/ recv_queue[q] # <<>>
    BY <1>1 DEF Nic, Deliver, Acknowledge, FlushSend, BreakLink, RetriesExceeded
<1>4. ASSUME NEW q \in Ranks PROVE ClosesClean(q)'
    <2>1. /\ Succeeded(q)' = Succeeded(q) /\ lifecycle'[q] = lifecycle[q]
        BY <1>2 DEF Succeeded, program_vars
    <2>2. HeldAt(q) => HeldAt(q)'
        BY <1>2, HeldStable DEF program_vars
    <2>3. ClosesClean(q)
        BY DEF ClosedInv
    <2> QED
        BY <1>3, <2>1, <2>2, <2>3 DEF ClosesClean
<1> QED
    BY <1>4

LEMMA InitClosed == InitGroup => ClosedInv
<1> SUFFICES ASSUME InitGroup PROVE ClosedInv
    OBVIOUS
<1>1. GroupInv
    BY InitGroupKeeps
<1>2. HeldInv /\ \A r \in Ranks : lifecycle[r] = "open"
    BY InitHeld DEF InitGroup
<1> QED
    BY <1>1, <1>2 DEF ClosedInv, ClosesClean, HeldInv

LEMMA NextClosed == ClosedInv /\ [NextGroup]_group_vars => ClosedInv'
<1> SUFFICES ASSUME ClosedInv, [NextGroup]_group_vars PROVE ClosedInv'
    OBVIOUS
<1>1. GroupInv'
    BY NextGroupKeeps DEF ClosedInv
<1>2. CASE UNCHANGED group_vars
    <2>1. UNCHANGED <<program_vars, lifecycle, recv_queue, pending_requests>>
        BY <1>2 DEF group_vars, vars, verbs_vars
    <2>2. \A q \in Ranks : ClosesClean(q)'
        BY <2>1, CleanStable DEF ClosedInv, program_vars
    <2> QED
        BY <1>1, <2>2 DEF ClosedInv
<1>3. CASE NextGroup
    <2>1. PICK r \in Ranks : \/ RunOpenRank(r) \/ Close(r) \/ Nic(r)
                             \/ BreakLink(r) /\ UNCHANGED <<program_vars, lifecycle>>
        BY <1>3, Zenon DEF NextGroup
    <2>2. \A q \in Ranks : ClosesClean(q)'
        <3>1. CASE RunOpenRank(r)
            BY <1>1, <3>1, OpenClean
        <3>2. CASE Close(r)
            BY <3>2, CloseClean
        <3>3. CASE Nic(r) \/ (BreakLink(r) /\ UNCHANGED <<program_vars, lifecycle>>)
            BY <3>3, FabricClean
        <3> QED
            BY <2>1, <3>1, <3>2, <3>3
    <2> QED
        BY <1>1, <2>2 DEF ClosedInv
<1> QED
    BY <1>2, <1>3

LEMMA ClosedKept ==
    ASSUME ClosedInv, [NextGroup]_group_vars, NEW q \in Ranks,
           lifecycle[q] # "open", Succeeded(q)
    PROVE  memory'[q] = memory[q]
<1>1. /\ TypeInv /\ TypeOKMemory /\ recv_queue[q] = <<>>
    BY DEF ClosedInv, ClosesClean, GroupInv, TrackedInv, TypeInv, TypeOK
<1>2. CASE UNCHANGED group_vars
    BY <1>2 DEF group_vars, vars
<1>3. ASSUME NEW r \in Ranks, RunOpenRank(r) PROVE memory'[q] = memory[q]
    <2>1. r # q
        BY <1>3, OpenSteps
    <2>2. CASE Killed(r)
        BY <2>2 DEF Killed
    <2>3. CASE RunRank(r) \/ PostsUnannounced(r) \/ MeetsEnd(r)
        BY <1>1, <2>1, <2>3, OpenOthers DEF ProgramOthers
    <2> QED
        BY <1>3, <2>2, <2>3, OpenSteps
<1>4. ASSUME NEW r \in Ranks, Close(r) PROVE memory'[q] = memory[q]
    BY <1>4 DEF Close, DestroyContext, CloseSockets, DestroyQps, DestroyRequests, vars
<1>5. ASSUME NEW s \in Ranks,
             Nic(s) \/ (BreakLink(s) /\ UNCHANGED <<program_vars, lifecycle>>)
      PROVE  memory'[q] = memory[q]
    <2>1. CASE Deliver(s)
        <3>1. NextRank(s) # q
            BY <1>1, <2>1 DEF Deliver
        <3>2. PICK region, data : memory' = Stored(NextRank(s), region, data)
            BY <2>1 DEF Deliver
        <3> QED
            BY <1>1, <3>1, <3>2 DEF Stored, TypeOKMemory
    <2>2. CASE Acknowledge(s) \/ FlushSend(s) \/ BreakLink(s)
        BY <2>2 DEF Acknowledge, FlushSend, BreakLink
    <2>3. CASE RetriesExceeded(s)
        BY <2>3 DEF RetriesExceeded
    <2> QED
        BY <1>5, <2>1, <2>2, <2>3 DEF Nic
<1>6. CASE NextGroup
    <2>1. PICK r \in Ranks : \/ RunOpenRank(r) \/ Close(r) \/ Nic(r)
                             \/ BreakLink(r) /\ UNCHANGED <<program_vars, lifecycle>>
        BY <1>6, Zenon DEF NextGroup
    <2> QED
        BY <1>3, <1>4, <1>5, <2>1
<1> QED
    BY <1>2, <1>6

\* A rank none of whose calls failed closes safely, whatever its neighbours
\* still do: from then on no step writes to its buffers (pg_close; the calls
\* waited for every receive, and a message under way has no receive WR to take).
THEOREM ClosedMemoryKept == SpecGroup => ClosedMemoryUntouched
<1>1. ASSUME ClosedInv, [NextGroup]_group_vars
      PROVE  \A r \in Ranks :
                lifecycle[r] # "open" /\ (\A c \in 1..Len(returned[r]) :
                                            returned[r][c].status = PG_SUCCESS)
                  => memory'[r] = memory[r]
    BY <1>1, ClosedKept DEF Succeeded
<1> QED
    BY <1>1, InitClosed, NextClosed, PTL DEF SpecGroup, ClosedMemoryUntouched


=============================================================================
