-------------------------- MODULE VerbsRingHealthy --------------------------
(* A group in which nothing is broken, and what its calls promise: none      *)
(* fails, neighbours keep in step, and together they are an all-reduce.      *)
EXTENDS VerbsRingData

\* Valid calls whose pieces have tags, ranks that cut and send pieces alike, a
\* queue pair with room for a batch, and no faults.
Healthy ==
    /\ ContinueAfterError = FALSE
    /\ FaultyLinks = {} /\ FaultyRanks = {}
    /\ \A c \in 1..Len(Calls) : Servable(c)
    /\ WorldSize - 2 <= kStepMask
    /\ \A r \in Ranks : batch_capacity(r) <= QpDepth
    /\ \A q, r \in Ranks : /\ piece_elements(q) = piece_elements(r)
                           /\ transfer_mode(q) = transfer_mode(r)

\* Every call of the rank that returned has succeeded.
Flawless(r) == \A c \in 1..Len(returned[r]) : returned[r][c].status = PG_SUCCESS

\* The sequence number counts the calls that returned.
Sequenced(r) ==
    sequence[r] + (IF pc[r] = "idle" THEN 0 ELSE 1) = FirstSequence + calls[r]

\* A descriptor is labelled as its sender will label the same piece.
Label(r, descriptor, j) ==
    /\ descriptor.tag = make_tag(sequence[r], phase[r], step[r], j)
    /\ descriptor.mode = choose_mode(transfer_mode(r), descriptor.bytes)

Labelled(r) ==
    \A k \in 1..Len(control[r]) : Label(r, control[r][k], Taken(r) + k - 1)

\* A completion reports success, of what its request asked for.
Fine(completion) == completion.ok /\ ~Unexpected(completion.wr_id, completion)

\* The opcode of a send is the one its mode calls for.
WellCoded(send) == send.opcode = "SEND_WITH_IMM" <=> send.wr_id.mode = EAGER

\* The transport of a rank has seen no error and will see none.
Working(r) ==
    /\ errored[r] = {} /\ ~qp_error[r]
    /\ \A k \in 1..Len(cq[r]) : Fine(cq[r][k])
    /\ \A k \in 1..Len(unacknowledged[r]) : WellCoded(unacknowledged[r][k])

HealthyAt(r) == Flawless(r) /\ Sequenced(r) /\ Labelled(r) /\ Working(r)

HealthyInv == DataInv /\ \A r \in Ranks : HealthyAt(r)

LEMMA HealthyFacts ==
    ASSUME HealthyInv
    PROVE  /\ DataInv /\ AlignedInv /\ PlacedInv /\ HeldInv /\ LinkInv /\ TypeInv /\ TypeOK
           /\ \A r \in Ranks : Unfailed(r) /\ HealthyAt(r) /\ Located(r) /\ Holds(r)
<1>1. DataInv /\ AlignedInv
    BY DEF HealthyInv, DataInv
<1>2. PlacedInv /\ HeldInv /\ LinkInv /\ TypeInv /\ TypeOK
    BY <1>1, DataFacts
<1>3. ASSUME NEW r \in Ranks PROVE Unfailed(r) /\ HealthyAt(r) /\ Located(r) /\ Holds(r)
    <2>1. HealthyAt(r) /\ Located(r) /\ Holds(r)
        BY <1>1, DataFacts DEF HealthyInv, DataInv
    <2>2. Len(returned[r]) \in Nat /\ (returned[r] # <<>> => Len(returned[r]) >= 1)
        BY <1>2 DEF TypeOK, TypeOKProgram
    <2>3. Unfailed(r)
        BY <2>1, <2>2 DEF HealthyAt, Flawless, Unfailed, LastStatus
    <2> QED
        BY <2>1, <2>3
<1> QED
    BY <1>1, <1>2, <1>3

-----------------------------------------------------------------------------
(* What a rank of a healthy group finds.                                     *)

\* The call it is in is one that can be served.
LEMMA CallServable ==
    ASSUME Healthy, TypeInv, NEW r \in Ranks, Located(r), pc[r] # "idle"
    PROVE  calls[r] \in 1..Len(Calls) /\ Servable(calls[r]) /\ CallKind(r) = "valid"
<1>1. calls[r] \in 0..Len(Calls) /\ Len(Calls) \in Nat
    BY CollectiveAssumption DEF TypeInv, TypeOK, TypeOKProgram
<1>2. calls[r] \in 1..Len(Calls)
    BY <1>1 DEF Located
<1> QED
    BY <1>2 DEF Healthy, Servable, CallKind

\* The next piece has a tag.
LEMMA TagFits ==
    ASSUME Healthy, TypeInv, NEW r \in Ranks, Located(r), RecvToPost(r) \/ SendToPost(r)
    PROVE  TagInRange(step[r], piece[r])
<1>1. Servable(calls[r])
    BY CallServable DEF RecvToPost, SendToPost
<1>2. PICK block \in Ranks : piece[r] < Pieces(r, block)
    <2>1. SendBlock(r) \in Ranks /\ RecvBlock(r) \in Ranks
        BY CurrentBlocks
    <2>2. SendPieces(r) = Pieces(r, SendBlock(r)) /\ RecvPieces(r) = Pieces(r, RecvBlock(r))
        BY CountFacts
    <2> QED
        BY <2>1, <2>2, LoopPiece
<1>3. Pieces(r, block) <= kPieceMask + 1 /\ Pieces(r, block) \in Nat
    BY <1>1, PiecesType DEF Servable, Pieces
<1>4. piece[r] <= kPieceMask
    <2>1. piece[r] \in Nat /\ kPieceMask \in Nat
        BY MaskAssumption DEF TypeInv, TypeOK, TypeOKProgram
    <2> QED
        BY <1>2, <1>3, <2>1
<1>5. step[r] <= kStepMask
    <2>1. step[r] \in 0..(WorldSize - 2) /\ kStepMask \in Nat /\ WorldSize \in Nat
        BY MaskAssumption, WorldAssumption DEF TypeInv, TypeOK, TypeOKProgram
    <2> QED
        BY <2>1 DEF Healthy
<1> QED
    BY <1>4, <1>5 DEF TagInRange

\* Requests that fit a batch fit the queue pair.
LEMMA QpFits ==
    ASSUME Healthy, TypeInv, NEW r \in Ranks, NEW kind, NEW S, NEW list \in Seq(S),
           Len(list) < batch_capacity(r),
           OfKind(pending_requests[r], kind) \subseteq Named(list, "request")
    PROVE  ~QpFull(r, kind)
<1>1. /\ IsFiniteSet(Named(list, "request"))
      /\ Cardinality(Named(list, "request")) <= Len(list)
    BY NamedCardinality
<1>2. Occupied(r, kind) \subseteq Named(list, "request")
    BY DEF Occupied, OfKind
<1>3. /\ IsFiniteSet(Occupied(r, kind))
      /\ Cardinality(Occupied(r, kind)) <= Cardinality(Named(list, "request"))
    BY <1>1, <1>2, FS_Subset
<1>4. /\ Cardinality(Occupied(r, kind)) \in Nat /\ Cardinality(Named(list, "request")) \in Nat
      /\ Len(list) \in Nat /\ batch_capacity(r) \in Nat /\ QpDepth \in Nat
    BY <1>1, <1>3, FS_CardinalityType, ConfigTypes, TransportAssumption
<1>5. batch_capacity(r) <= QpDepth
    BY DEF Healthy
<1> QED
    BY <1>1, <1>3, <1>4, <1>5 DEF QpFull

\* There is room for the next piece.
LEMMA RoomForPiece ==
    ASSUME Healthy, HeldInv, NEW r \in Ranks, Located(r), Unfailed(r)
    PROVE  /\ RecvToPost(r) => ~QpFull(r, "recv")
           /\ SendToPost(r) => ~QpFull(r, "send")
<1>1. TypeInv /\ Kept(r) /\ InBatch(r)
    BY DEF HeldInv, HeldAt, LinkInv
<1>2. /\ recv_requests[r] \in Seq(PostedRequests(RequestStates))
      /\ send_requests[r] \in Seq(PostedRequests(RequestStates))
      /\ Len(recv_requests[r]) \in Nat /\ Len(send_requests[r]) \in Nat
    BY <1>1 DEF TypeInv, TypeOK, TypeOKProgram
<1>3. /\ BeginPiece(r) \in Nat /\ batch_capacity(r) \in Nat /\ piece[r] \in Nat
      /\ EndPiece(r) = BeginPiece(r) + batch_capacity(r)
    BY <1>1, CountFacts, ConfigTypes DEF EndPiece
<1>4. /\ OfKind(pending_requests[r], "recv") \subseteq Named(recv_requests[r], "request")
      /\ OfKind(pending_requests[r], "send") \subseteq Named(send_requests[r], "request")
    <2>1. pending_requests[r] = Named(recv_requests[r], "request")
                                  \cup Named(send_requests[r], "request")
        BY <1>1 DEF Kept, Held
    <2>2. /\ \A q \in Named(recv_requests[r], "request") : q.kind = "recv"
          /\ \A q \in Named(send_requests[r], "request") : q.kind = "send"
        BY <1>1 DEF Kept
    <2>3. "recv" # "send"
        OBVIOUS
    <2> QED
        BY <2>1, <2>2, <2>3 DEF OfKind
<1>5. ASSUME RecvToPost(r) PROVE ~QpFull(r, "recv")
    <2>1. Len(recv_requests[r]) <= piece[r] - BeginPiece(r) /\ piece[r] < EndPiece(r)
        BY <1>1, <1>5, LoopPiece DEF InBatch, RecvToPost
    <2>2. Len(recv_requests[r]) < batch_capacity(r)
        BY <1>2, <1>3, <2>1
    <2> QED
        BY <1>1, <1>2, <1>4, <2>2, QpFits
<1>6. ASSUME SendToPost(r) PROVE ~QpFull(r, "send")
    <2>1. Len(send_requests[r]) <= piece[r] - BeginPiece(r) /\ piece[r] < EndPiece(r)
        BY <1>1, <1>6, LoopPiece DEF InBatch, SendToPost
    <2>2. Len(send_requests[r]) < batch_capacity(r)
        BY <1>2, <1>3, <2>1
    <2> QED
        BY <1>1, <1>2, <1>4, <2>2, QpFits
<1> QED
    BY <1>5, <1>6
-----------------------------------------------------------------------------
(* What a rank of a healthy group does.                                      *)

\* The oldest descriptor a rank finds is for the piece it is about to send.
LEMMA OldestAnnounced ==
    ASSUME HealthyInv, Healthy, NEW r \in Ranks, NEW d, d = NextRank(r), SendToPost(r),
           control[d] # <<>>
    PROVE  /\ pc[r] # "idle" /\ pc[d] # "idle" /\ d \in Ranks
           /\ StepsDone(r) = StepsDone(d) /\ Taken(d) = piece[r]
           /\ RecvBlock(d) = SendBlock(r)
           /\ Head(control[d]) \in ControlMessages
           /\ Head(control[d]).bytes = CutLength(d, RecvBlock(d), Taken(d)) * ElementSize
           /\ Label(d, Head(control[d]), Taken(d))
<1>1. d \in Ranks /\ PrevRank(d) = r
    BY Neighbours
<1>2. /\ AlignedInv /\ PlacedInv /\ HeldInv /\ TypeInv /\ Located(r) /\ Located(d)
      /\ Unfailed(r) /\ Unfailed(d) /\ Labelled(d) /\ Placed(d) /\ Aligned(r)
    BY <1>1, HealthyFacts, DataFacts DEF HealthyAt
<1>3. PICK ph \in {ReduceScatter, AllGather}, rb \in Ranks, sb \in Ranks, a \in Nat,
           b \in Nat : PlacedAt(d, ph, rb, sb, a, b) /\ Current(d, ph, rb, sb, a)
    BY <1>2 DEF Placed
<1>4. /\ rb = RecvBlock(d) /\ a + Len(control[d]) = RecvsPosted(d)
      /\ a + Len(control[d]) <= Pieces(d, rb) /\ DescsFrom(d, ph, rb, control[d], a)
    BY <1>2, <1>3 DEF Current, PlacedAt
<1>5. /\ control[d] \in Seq(ControlMessages) /\ Len(control[d]) \in Nat
      /\ Len(control[d]) >= 1 /\ Head(control[d]) = control[d][1]
      /\ Head(control[d]) \in ControlMessages
    <2>1. control[d] \in Seq(ControlMessages)
        BY <1>1, <1>2, QueueTypes
    <2> QED
        BY <2>1
<1>6. Taken(d) = a /\ a < Pieces(d, rb)
    <2>1. \A n, l \in Nat : (n + l) - l = n
        OBVIOUS
    <2>2. Taken(d) = a
        BY <1>4, <1>5, <2>1, Zenon DEF Taken
    <2>3. Pieces(d, rb) \in Nat
        BY <1>1, PiecesType
    <2> QED
        BY <1>4, <1>5, <2>2, <2>3
<1>7. pc[d] # "idle"
    <2>1. SUFFICES ASSUME pc[d] = "idle" PROVE FALSE
        OBVIOUS
    <2>2. recv_requests[d] = <<>> /\ send_requests[d] = <<>>
        BY <1>1, <1>2, <2>1 DEF HeldInv, HeldAt, InBatch, TypeInv, RecvsInBlock
    <2> QED
        BY <1>1, <1>2, <2>2, NothingHeld
<1>8. pc[r] # "idle" /\ SendsPosted(r) = piece[r] /\ piece[r] < SendPieces(r)
    BY <1>2, LoopPiece DEF SendToPost
<1> DEFINE g == StepsDone(r)
           h == StepsDone(d)
<1>9. /\ g \in Nat /\ h \in Nat /\ SendPieces(r) = Pieces(r, Moved(r, g))
      /\ piece[r] \in Nat
    BY <1>2, <1>8, LinkCounts
<1>10. SendBlock(r) = Moved(r, g) /\ RecvBlock(d) = Moved(r, h)
    BY <1>1, <1>2, StepFacts
<1>11. AlignedAt(r, g, h, piece[r], Taken(d))
    BY <1>2, <1>8 DEF Aligned
<1>12. g = h /\ Taken(d) = piece[r]
    <2>1. Taken(d) # Pieces(d, Moved(r, h))
        BY <1>4, <1>6, <1>10
    <2>2. piece[r] # Pieces(r, Moved(r, g))
        BY <1>8, <1>9
    <2> HIDE DEF g, h
    <2> QED
        BY <1>11, <2>1, <2>2 DEF AlignedAt
<1>13. Head(control[d]).bytes = CutLength(d, RecvBlock(d), Taken(d)) * ElementSize
    <2>1. a + 1 - 1 = a /\ 1 \in 1..Len(control[d])
        BY <1>5
    <2> QED
        BY <1>4, <1>5, <1>6, <2>1 DEF DescsFrom
<1>14. Label(d, Head(control[d]), Taken(d))
    <2>1. Taken(d) + 1 - 1 = Taken(d) /\ 1 \in 1..Len(control[d])
        BY <1>5, <1>6
    <2> QED
        BY <1>2, <1>5, <2>1 DEF Labelled
<1> QED
    BY <1>1, <1>5, <1>7, <1>8, <1>10, <1>12, <1>13, <1>14

\* So the check of post_send_next passes.
LEMMA OldestMatches ==
    ASSUME HealthyInv, Healthy, NEW r \in Ranks, SendToPost(r),
           control[NextRank(r)] # <<>>
    PROVE  DescriptorMatches(Head(control[NextRank(r)]), Tag(r), SendBytes(r),
                             choose_mode(transfer_mode(r), SendBytes(r)))
<1> DEFINE d == NextRank(r)
           descriptor == Head(control[d])
<1>1. /\ pc[r] # "idle" /\ pc[d] # "idle" /\ d \in Ranks
      /\ StepsDone(r) = StepsDone(d) /\ Taken(d) = piece[r]
      /\ RecvBlock(d) = SendBlock(r)
      /\ descriptor.bytes = CutLength(d, RecvBlock(d), Taken(d)) * ElementSize
      /\ Label(d, descriptor, Taken(d))
    BY OldestAnnounced
<1>2. TypeInv /\ Located(r) /\ Located(d) /\ Sequenced(r) /\ Sequenced(d)
    BY <1>1, HealthyFacts DEF HealthyAt
<1>3. phase[r] = phase[d] /\ step[r] = step[d] /\ calls[r] = calls[d]
    BY <1>1, <1>2, EqualSteps
<1>4. sequence[r] = sequence[d]
    <2>1. sequence[r] \in Nat /\ sequence[d] \in Nat
        BY <1>1, <1>2 DEF TypeInv, TypeOK, TypeOKProgram
    <2>2. sequence[r] + 1 = sequence[d] + 1
        BY <1>1, <1>2, <1>3 DEF Sequenced
    <2> QED
        BY <2>1, <2>2
<1>5. descriptor.tag = Tag(r)
    BY <1>1, <1>3, <1>4 DEF Label, Tag
<1>6. piece_elements(d) = piece_elements(r) /\ transfer_mode(d) = transfer_mode(r)
    BY <1>1 DEF Healthy
<1>7. descriptor.bytes = SendBytes(r)
    BY <1>1, <1>6 DEF SendBytes, PieceLength, CutLength
<1>8. descriptor.mode = choose_mode(transfer_mode(r), SendBytes(r))
    BY <1>1, <1>6, <1>7 DEF Label
<1> QED
    BY <1>5, <1>7, <1>8 DEF DescriptorMatches

\* The steps a healthy rank takes.
PostsRecv(r) ==
    /\ RecvToPost(r)
    /\ post_receive_previous(r, RecvRegion(r), RecvBytes(r), Tag(r), transfer_mode(r))
    /\ RecvPosted(r, NewRequest(r, "recv", Tag(r), RecvBytes(r), transfer_mode(r)))

PostsSend(r) ==
    /\ SendToPost(r)
    /\ post_send_next(r, SendRegion(r), SendBytes(r), Tag(r), transfer_mode(r))
    /\ SendPosted(r, NewRequest(r, "send", Tag(r), SendBytes(r), transfer_mode(r)))

Waits(r) ==
    \E request \in Awaited(r) :
        consume_request(r, request) /\ (RecvWaited(r) \/ SendWaited(r))

HealthyStep(r) ==
    \/ (BeginCall(r) \/ Loop(r) \/ ReturnSuccess(r)) /\ UNCHANGED verbs_vars
    \/ PostsRecv(r) \/ PostsSend(r) \/ Poll(r) \/ Waits(r)

\* It takes no other: nothing throws and no status is an error.
LEMMA HealthyRun ==
    ASSUME HealthyInv, Healthy, NEW r \in Ranks, RunRank(r)
    PROVE  HealthyStep(r)
<1>1. HeldInv /\ TypeInv /\ Located(r) /\ Unfailed(r) /\ Working(r)
    BY HealthyFacts DEF HealthyAt
<1>2. r \notin FaultyRanks
    BY DEF Healthy
<1>3. CASE Proceed(r) /\ UNCHANGED verbs_vars
    <2>1. ~RefuseCall(r)
        <3>1. SUFFICES ASSUME RefuseCall(r) PROVE FALSE
            OBVIOUS
        <3>2. calls[r] + 1 \in 1..Len(Calls)
            <4>1. calls[r] \in 0..Len(Calls) /\ Len(Calls) \in Nat
                BY <1>1, CollectiveAssumption DEF TypeInv, TypeOK, TypeOKProgram
            <4> QED
                BY <3>1, <4>1 DEF RefuseCall, MayCall
        <3>3. Calls[calls[r] + 1] = "valid"
            BY <3>2 DEF Healthy, Servable
        <3> QED
            BY <3>1, <3>3 DEF RefuseCall
    <2>2. ~TagOutOfRange(r)
        BY <1>1, TagFits DEF TagOutOfRange
    <2> QED
        BY <1>3, <2>1, <2>2 DEF Proceed, HealthyStep, Loop
<1>4. CASE PostRecv(r)
    <2>1. RecvToPost(r) /\ ~QpFull(r, "recv")
        BY <1>1, <1>4, RoomForPiece DEF PostRecv
    <2>2. ~post_receive_throws(r)
        BY <1>2, <2>1 DEF post_receive_throws
    <2> QED
        BY <1>4, <2>1, <2>2 DEF PostRecv, HealthyStep, PostsRecv
<1>5. CASE PostSend(r)
    <2>1. SendToPost(r) /\ ~QpFull(r, "send")
        BY <1>1, <1>5, RoomForPiece DEF PostSend
    <2>2. ~post_send_throws(r, SendBytes(r), Tag(r), transfer_mode(r))
        BY <1>2, <2>1, OldestMatches DEF post_send_throws
    <2> QED
        BY <1>5, <2>1, <2>2 DEF PostSend, HealthyStep, PostsSend
<1>6. CASE Poll(r)
    BY <1>6 DEF HealthyStep
<1>7. CASE PollFails(r)
    BY <1>2, <1>7 DEF PollFails
<1>8. CASE Wait(r)
    <2>1. PICK request \in Awaited(r) :
            /\ consume_request(r, request)
            /\ \/ RecvWaited(r) \/ OperationUnsupported(r) \/ SendWaited(r)
               \/ request \in errored[r]
        BY <1>8 DEF Wait
    <2>2. request \notin errored[r]
        BY <1>1 DEF Working
    <2>3. ~OperationUnsupported(r)
        <3>1. SUFFICES ASSUME OperationUnsupported(r) PROVE FALSE
            OBVIOUS
        <3>2. CallKind(r) = "valid"
            BY <1>1, <3>1, CallServable DEF OperationUnsupported
        <3> QED
            BY <3>1, <3>2 DEF OperationUnsupported
    <2> QED
        BY <2>1, <2>2, <2>3 DEF HealthyStep, Waits
<1> QED
    BY <1>3, <1>4, <1>5, <1>6, <1>7, <1>8 DEF RunRank

-----------------------------------------------------------------------------
(* It stays healthy.                                                         *)

LEMMA EntryAppend ==
    ASSUME NEW S, NEW queue \in Seq(S), NEW entry \in S, NEW k \in 1..Len(Append(queue, entry))
    PROVE  \/ k \in 1..Len(queue) /\ Append(queue, entry)[k] = queue[k]
           \/ k = Len(queue) + 1 /\ Append(queue, entry)[k] = entry
<1>1. Len(queue) \in Nat /\ Len(Append(queue, entry)) = Len(queue) + 1
    OBVIOUS
<1>2. k \in 1..Len(queue) \/ k = Len(queue) + 1
    BY <1>1
<1>3. /\ \A i \in 1..Len(queue) : Append(queue, entry)[i] = queue[i]
      /\ Append(queue, entry)[Len(queue) + 1] = entry
    OBVIOUS
<1> QED
    BY <1>2, <1>3

LEMMA EntryTail ==
    ASSUME NEW S, NEW queue \in Seq(S), queue # <<>>, NEW k \in 1..Len(Tail(queue))
    PROVE  k + 1 \in 1..Len(queue) /\ Tail(queue)[k] = queue[k + 1]
<1>1. Len(Tail(queue)) = Len(queue) - 1 /\ Len(queue) \in Nat /\ Len(queue) >= 1
    OBVIOUS
<1> QED
    BY <1>1

\* Its calls, so far, have all succeeded, and its sequence number counts them.
LEMMA StepFlawless ==
    ASSUME HealthyInv, NEW r \in Ranks, HealthyStep(r)
    PROVE  Flawless(r)' /\ Sequenced(r)'
<1>1. TypeInv /\ Flawless(r) /\ Sequenced(r)
    BY HealthyFacts DEF HealthyAt
<1>2. /\ returned[r] \in Seq([status : Statuses,
                              recvbuf : [Elements("workbuf") -> Seq(Contributions)]])
      /\ sequence[r] \in Nat /\ calls[r] \in Nat /\ FirstSequence \in Nat
    <2>1. Len(Calls) \in Nat /\ FirstSequence \in Nat
        BY CollectiveAssumption
    <2>2. TypeOKProgram(RequestStates)
        BY <1>1 DEF TypeInv, TypeOK
    <2>3. calls[r] \in 0..Len(Calls) /\ sequence[r] \in Nat
        BY <2>2 DEF TypeOKProgram
    <2>4. returned[r] \in Seq([status : Statuses,
                              recvbuf : [Elements("workbuf") -> Seq(Contributions)]])
        BY <2>2 DEF TypeOKProgram
    <2> QED
        BY <2>1, <2>3, <2>4
<1>3. CASE BeginCall(r)
    <2>1. /\ returned'[r] = returned[r] /\ sequence'[r] = sequence[r] /\ pc[r] = "idle"
          /\ pc'[r] = "batch" /\ calls'[r] = calls[r] + 1
        BY <1>1, <1>3
           DEF BeginCall, MayCall, Goto, TypeInv, TypeOK, TypeOKProgram
    <2>2. Flawless(r)'
        BY <1>1, <2>1 DEF Flawless
    <2>3. Sequenced(r)'
        BY <1>1, <1>2, <2>1 DEF Sequenced
    <2> QED
        BY <2>2, <2>3
<1>4. CASE ReturnSuccess(r)
    <2>1. /\ sequence'[r] = sequence[r] + 1 /\ pc[r] # "idle" /\ pc'[r] = "idle"
          /\ calls'[r] = calls[r]
          /\ returned'[r] = Append(returned[r], [status  |-> PG_SUCCESS,
                                                 recvbuf |-> memory[r].workbuf])
        BY <1>1, <1>4 DEF ReturnSuccess, Return, Goto, TypeInv, TypeOK, TypeOKProgram
    <2>2. [status |-> PG_SUCCESS, recvbuf |-> memory[r].workbuf]
            \in [status : Statuses, recvbuf : [Elements("workbuf") -> Seq(Contributions)]]
        BY <1>1 DEF TypeInv, TypeOK, TypeOKMemory, Statuses
    <2>3. Flawless(r)'
        <3>1. PICK S, entry :
                /\ returned[r] \in Seq(S) /\ entry \in S /\ entry.status = PG_SUCCESS
                /\ returned'[r] = Append(returned[r], entry)
            BY <1>2, <2>1, <2>2
        <3>2. ASSUME NEW c \in 1..Len(returned'[r]) PROVE returned'[r][c].status = PG_SUCCESS
            <4>1. \/ c \in 1..Len(returned[r]) /\ returned'[r][c] = returned[r][c]
                  \/ returned'[r][c] = entry
                BY <3>1, <3>2, EntryAppend, ZenonT(30)
            <4> QED
                BY <1>1, <3>1, <4>1 DEF Flawless
        <3> QED
            BY <3>2 DEF Flawless
    <2>4. Sequenced(r)'
        BY <1>1, <1>2, <2>1 DEF Sequenced
    <2> QED
        BY <2>3, <2>4
<1>5. CASE ~BeginCall(r) /\ ~ReturnSuccess(r)
    <2>1. UNCHANGED <<returned, sequence, calls>> /\ (pc'[r] = "idle" <=> pc[r] = "idle")
        <3>1. CASE Loop(r)
            BY <1>1, <3>1
               DEF Loop, BeginBatch, NextStep, BeginAllGather, EndPostRecv, EndPostSend,
                   EndWaitRecv, EndBatch, Goto, TypeInv, TypeOK, TypeOKProgram
        <3>2. CASE PostsRecv(r) \/ PostsSend(r)
            BY <3>2 DEF PostsRecv, PostsSend, RecvPosted, SendPosted
        <3>3. CASE Poll(r) \/ Waits(r)
            BY <3>3 DEF Poll, Waits, RecvWaited, SendWaited, program_vars
        <3> QED
            BY <1>5, <3>1, <3>2, <3>3 DEF HealthyStep
    <2> QED
        BY <1>1, <2>1 DEF Flawless, Sequenced
<1> QED
    BY <1>3, <1>4, <1>5

\* Its transport still works.
LEMMA StepWorking ==
    ASSUME HealthyInv, NEW r \in Ranks, HealthyStep(r)
    PROVE  Working(r)'
<1>1. TypeInv /\ Working(r)
    BY HealthyFacts DEF HealthyAt
<1>2. /\ cq[r] \in Seq(Completions) /\ cq \in [Ranks -> Seq(Completions)]
      /\ errored \in [Ranks -> SUBSET RequestStates]
    BY <1>1 DEF TypeInv, TypeOK, TypeOKVerbs
<1>3. CASE UNCHANGED <<errored, qp_error, cq, unacknowledged>>
    BY <1>1, <1>3 DEF Working
<1>4. CASE Poll(r)
    <2>1. /\ cq[r] # <<>> /\ cq'[r] = Tail(cq[r]) /\ UNCHANGED <<qp_error, unacknowledged>>
          /\ Head(cq[r]).ok /\ ~Unexpected(Head(cq[r]).wr_id, Head(cq[r])) => errored' = errored
        BY <1>2, <1>4 DEF Poll, handle_completion
    <2>2. Fine(Head(cq[r]))
        <3>1. 1 \in 1..Len(cq[r]) /\ Head(cq[r]) = cq[r][1]
            BY <1>2, <2>1
        <3> QED
            BY <1>1, <3>1 DEF Working
    <2>3. errored' = errored
        BY <2>1, <2>2 DEF Fine
    <2>4. \A k \in 1..Len(cq'[r]) : Fine(cq'[r][k])
        BY <1>1, <1>2, <2>1, EntryTail DEF Working
    <2> QED
        BY <1>1, <2>1, <2>3, <2>4 DEF Working, Fine, Unexpected
<1>5. CASE Waits(r)
    <2>1. UNCHANGED <<qp_error, cq, unacknowledged>> /\ errored'[r] \subseteq errored[r]
        BY <1>2, <1>5 DEF Waits, consume_request
    <2> QED
        BY <1>1, <2>1 DEF Working
<1>6. CASE (PostsRecv(r) \/ PostsSend(r)) \/ UNCHANGED verbs_vars
    BY <1>3, <1>6
       DEF PostsRecv, PostsSend, post_receive_previous, post_send_next, verbs_vars
<1> QED
    BY <1>4, <1>5, <1>6 DEF HealthyStep

\* A rank whose position, sequence number and descriptors stay labels them alike.
LEMMA LabelledSame ==
    ASSUME NEW q, Labelled(q), control'[q] = control[q], RecvsPosted(q)' = RecvsPosted(q),
           phase'[q] = phase[q], step'[q] = step[q], sequence'[q] = sequence[q]
    PROVE  Labelled(q)'
BY DEF Labelled, Label, Taken

\* The descriptor of the receive just posted is labelled as its sender will.
LEMMA PostsRecvLabelled ==
    ASSUME HealthyInv, NEW r \in Ranks, PostsRecv(r)
    PROVE  Labelled(r)'
<1>1. TypeInv /\ Located(r) /\ Labelled(r)
    BY HealthyFacts DEF HealthyAt
<1>2. RecvToPost(r) /\ RecvsPosted(r) = piece[r]
    BY <1>1, LoopPiece DEF PostsRecv
<1>3. /\ piece' = [piece EXCEPT ![r] = @ + 1]
      /\ UNCHANGED <<pc, phase, step, batch, calls, sequence>>
    BY DEF PostsRecv, RecvPosted
<1>4. RecvsPosted(r)' = piece[r] + 1
    BY <1>1, <1>2, <1>3, NextPiece
<1> DEFINE bytes == RecvBytes(r)
           state == NewRequest(r, "recv", Tag(r), bytes, transfer_mode(r))
           descriptor == ControlMessage(Tag(r), bytes, state.mode, RecvRegion(r))
<1>5. /\ control[r] \in Seq(ControlMessages) /\ Len(control[r]) \in Nat /\ piece[r] \in Nat
      /\ control \in [Ranks -> Seq(ControlMessages)]
    BY <1>1, QueueTypes DEF TypeInv, TypeOK, TypeOKVerbs, TypeOKProgram
<1>6. descriptor \in ControlMessages
    <2>1. Tag(r) \in Nat /\ RecvRegion(r) \in Regions /\ bytes \in Nat /\ TypeOKVerbs
        BY <1>1, <1>2, TagTypes, PostedRegions DEF TypeInv, TypeOK, ProgramOK
    <2>2. state \in RequestStates
        BY <2>1, NewRequestType
    <2> HIDE DEF bytes, state
    <2> QED
        BY <2>1, <2>2 DEF ControlMessage, ControlMessages, RequestStates
<1>7. control'[r] = Append(control[r], descriptor)
    BY <1>5 DEF PostsRecv, post_receive_previous
<1>8. /\ descriptor.tag = make_tag(sequence[r], phase[r], step[r], piece[r])
      /\ descriptor.mode = choose_mode(transfer_mode(r), descriptor.bytes)
    BY DEF ControlMessage, Tag, NewRequest, RequestState
<1> HIDE DEF descriptor
<1>9. Len(control'[r]) = Len(control[r]) + 1
    BY <1>5, <1>6, <1>7
<1>10. Taken(r)' = Taken(r) /\ Taken(r) + (Len(control[r]) + 1) - 1 = piece[r]
    <2>1. PICK p, l \in Nat : p = piece[r] /\ l = Len(control[r])
        BY <1>5
    <2>2. Taken(r) = p - l /\ Taken(r)' = (p + 1) - (l + 1)
        BY <1>2, <1>4, <1>9, <2>1, Zenon DEF Taken
    <2>3. \A m, n \in Nat : (m + 1) - (n + 1) = m - n /\ (m - n) + (n + 1) - 1 = m
        OBVIOUS
    <2>4. (p + 1) - (l + 1) = p - l /\ (p - l) + (l + 1) - 1 = p
        BY <2>3, Zenon
    <2> QED
        BY <2>1, <2>2, <2>4, Zenon
<1>11. ASSUME NEW k \in 1..Len(control'[r])
       PROVE  Label(r, control'[r][k], Taken(r) + k - 1)
    <2>1. \/ k \in 1..Len(control[r]) /\ control'[r][k] = control[r][k]
          \/ k = Len(control[r]) + 1 /\ control'[r][k] = descriptor
        BY <1>5, <1>6, <1>7, EntryAppend
    <2>2. CASE k \in 1..Len(control[r]) /\ control'[r][k] = control[r][k]
        BY <1>1, <2>2 DEF Labelled
    <2>3. CASE k = Len(control[r]) + 1 /\ control'[r][k] = descriptor
        BY <1>8, <1>10, <2>3 DEF Label
    <2> QED
        BY <2>1, <2>2, <2>3
<1> QED
    BY <1>3, <1>10, <1>11 DEF Labelled, Label

\* Its own descriptors keep their labels, or the step that is over took them all.
LEMMA StepLabelled ==
    ASSUME HealthyInv, Healthy, NEW r \in Ranks, RunRank(r), HealthyStep(r)
    PROVE  Labelled(r)'
<1>1. /\ HeldInv /\ TypeInv /\ Located(r) /\ Labelled(r) /\ Unfailed(r)
      /\ control[r] \in Seq(ControlMessages)
    BY HealthyFacts, QueueTypes DEF HealthyAt
<1>2. CASE PostsRecv(r)
    BY <1>2, PostsRecvLabelled
<1>3. CASE ReturnSuccess(r) /\ UNCHANGED verbs_vars
    <2>1. Advances(r)
        BY <1>1, <1>3, AdvanceEffect
    <2>2. control'[r] = <<>>
        BY <1>1, <1>3, <2>1, NothingHeld DEF Advances, verbs_vars
    <2> QED
        BY <2>2 DEF Labelled
<1>4. CASE ~PostsRecv(r) /\ ~(ReturnSuccess(r) /\ UNCHANGED verbs_vars)
    <2>1. control'[r] = control[r]
        <3>1. NextRank(r) # r /\ control \in [Ranks -> Seq(ControlMessages)]
            BY <1>1, Neighbours DEF TypeInv, TypeOK, TypeOKVerbs
        <3>2. CASE PostsSend(r)
            BY <3>1, <3>2 DEF PostsSend, post_send_next
        <3> QED
            BY <1>4, <3>2
               DEF HealthyStep, Poll, handle_completion, Waits, consume_request, verbs_vars
    <2>2. sequence'[r] = sequence[r]
        BY <1>4
           DEF HealthyStep, BeginCall, Loop, BeginBatch, NextStep, BeginAllGather,
               EndPostRecv, EndPostSend, EndWaitRecv, EndBatch, PostsSend, SendPosted, Poll,
               Waits, RecvWaited, SendWaited, program_vars
    <2>3. CASE Advances(r)
        <3>1. control'[r] = <<>>
            BY <1>1, <2>1, <2>3, NothingHeld DEF Advances
        <3> QED
            BY <3>1 DEF Labelled
    <2>4. CASE Stays(r) \/ Sends(r) \/ Consumes(r)
        BY <1>1, <2>1, <2>2, <2>4, LabelledSame DEF Stays, Sends, Consumes, SameStep
    <2>5. ~Receives(r)
        <3>1. SUFFICES ASSUME Receives(r) PROVE FALSE
            OBVIOUS
        <3>2. PICK descriptor \in ControlMessages :
                control' = [control EXCEPT ![r] = Append(@, descriptor)]
            BY <3>1 DEF Receives
        <3>3. control[r] = Append(control[r], descriptor)
            BY <1>1, <2>1, <3>2 DEF TypeInv, TypeOK, TypeOKVerbs
        <3>4. Len(control[r]) \in Nat /\ Len(control[r]) = Len(control[r]) + 1
            BY <1>1, <3>3
        <3> QED
            BY <3>4
    <2>6. ~GivesUp(r)
        <3>1. Flawless(r)' /\ TypeInv'
            <4>1. [Next]_vars
                BY DEF Next
            <4> QED
                BY <1>1, <4>1, StepFlawless, NextTypes
        <3>2. returned'[r] # <<>> => Len(returned'[r]) \in 1..Len(returned'[r])
            BY <3>1 DEF TypeInv, TypeOK, TypeOKProgram
        <3>3. Unfailed(r)'
            BY <3>1, <3>2 DEF Flawless, Unfailed, LastStatus
        <3> QED
            BY <3>3 DEF GivesUp
    <2> QED
        BY <1>1, <2>3, <2>4, <2>5, <2>6, RunEffects
<1> QED
    BY <1>2, <1>3, <1>4

\* The other ranks keep what they had, the next rank less the descriptor read.
LEMMA OthersHealthy ==
    ASSUME HealthyInv, Healthy, NEW r \in Ranks, RunRank(r), HealthyStep(r),
           NEW q \in Ranks \ {r}
    PROVE  HealthyAt(q)'
<1>1. /\ TypeInv /\ HeldInv /\ Located(r) /\ Located(q) /\ HealthyAt(q)
      /\ control[q] \in Seq(ControlMessages) /\ control \in [Ranks -> Seq(ControlMessages)]
    BY HealthyFacts, QueueTypes DEF TypeInv, TypeOK, TypeOKVerbs
<1>2. /\ pc'[q] = pc[q] /\ phase'[q] = phase[q] /\ step'[q] = step[q]
      /\ sequence'[q] = sequence[q] /\ calls'[q] = calls[q] /\ returned'[q] = returned[q]
      /\ cq'[q] = cq[q] /\ unacknowledged'[q] = unacknowledged[q] /\ errored'[q] = errored[q]
    BY <1>1, RunOthers DEF ProgramOthers, VerbsOthers, SameRequests
<1>3. RecvsPosted(q)' = RecvsPosted(q)
    BY <1>1, RunPosition DEF SamePosition
<1>4. /\ qp_error' = qp_error
      /\ control'[q] = control[q] \/ /\ control[q] # <<>> /\ control'[q] = Tail(control[q])
    <2>1. CASE PostsRecv(r)
        BY <1>1, <2>1 DEF PostsRecv, post_receive_previous
    <2>2. CASE PostsSend(r)
        BY <1>1, <2>2 DEF PostsSend, post_send_next
    <2>3. CASE ~PostsRecv(r) /\ ~PostsSend(r)
        BY <2>3 DEF HealthyStep, Poll, handle_completion, Waits, consume_request, verbs_vars
    <2> QED
        BY <2>1, <2>2, <2>3
<1>5. Flawless(q)' /\ Sequenced(q)' /\ Working(q)'
    BY <1>1, <1>2, <1>4 DEF HealthyAt, Flawless, Sequenced, Working
<1>6. Labelled(q)'
    <2>1. CASE control'[q] = control[q]
        BY <1>1, <1>2, <1>3, <2>1, LabelledSame DEF HealthyAt
    <2>2. CASE control[q] # <<>> /\ control'[q] = Tail(control[q])
        <3>1. Taken(q)' = Taken(q) + 1 /\ Taken(q) \in Int
            <4>1. /\ Len(control'[q]) = Len(control[q]) - 1 /\ Len(control[q]) \in Nat
                  /\ RecvsPosted(q) \in Nat
                BY <1>1, <2>2, CountFacts
            <4>2. \A p, l \in Nat : p - (l - 1) = (p - l) + 1 /\ p - l \in Int
                OBVIOUS
            <4> QED
                BY <1>3, <4>1, <4>2, Zenon DEF Taken
        <3>2. ASSUME NEW k \in 1..Len(control'[q])
              PROVE  Label(q, control'[q][k], Taken(q)' + k - 1)
            <4>1. k + 1 \in 1..Len(control[q]) /\ control'[q][k] = control[q][k + 1]
                BY <1>1, <2>2, <3>2, EntryTail
            <4>2. Taken(q) + (k + 1) - 1 = Taken(q)' + k - 1
                BY <3>1
            <4> QED
                BY <1>1, <4>1, <4>2 DEF HealthyAt, Labelled
        <3> QED
            BY <1>2, <3>2 DEF Labelled, Label
    <2> QED
        BY <1>4, <2>1, <2>2
<1> QED
    BY <1>5, <1>6 DEF HealthyAt

LEMMA RunHealthy ==
    ASSUME HealthyInv, Healthy, NEW r \in Ranks, RunRank(r)
    PROVE  \A q \in Ranks : HealthyAt(q)'
<1>1. HealthyStep(r)
    BY HealthyRun
<1>2. HealthyAt(r)'
    BY <1>1, StepFlawless, StepWorking, StepLabelled DEF HealthyAt
<1> QED
    BY <1>1, <1>2, OthersHealthy

-----------------------------------------------------------------------------
(* The fabric of a healthy group.                                            *)

\* The completion of a receive is what the receiver asked for.
LEMMA DeliveredFine ==
    ASSUME NEW recv, NEW send, SendMatches(send, recv), WellCoded(send)
    PROVE  Fine(RecvCompletion(recv, send))
BY DEF SendMatches, WellCoded, Fine, RecvCompletion, Completion, Unexpected

\* That of an acknowledged send is what its sender asked for.
LEMMA AcknowledgedFine ==
    ASSUME NEW send, send.wr_id.kind = "send", WellCoded(send)
    PROVE  Fine(SendCompletion(send, TRUE))
BY DEF WellCoded, Fine, SendCompletion, Completion, Unexpected

\* What a step of the fabric leaves alone.
LEMMA FabricKeeps ==
    ASSUME HealthyInv, UNCHANGED program_vars, control' = control, NEW q \in Ranks
    PROVE  Flawless(q)' /\ Sequenced(q)' /\ Labelled(q)'
<1>1. Flawless(q) /\ Sequenced(q) /\ Labelled(q)
    BY HealthyFacts DEF HealthyAt
<1>2. Flawless(q)' /\ Sequenced(q)'
    BY <1>1 DEF Flawless, Sequenced, program_vars
<1>3. RecvsPosted(q)' = RecvsPosted(q)
    BY DEF RecvsPosted, RecvPieces, RecvBlock, BeginPiece, EndPiece, program_vars
<1>4. Labelled(q)'
    BY <1>1, <1>3, LabelledSame DEF program_vars
<1> QED
    BY <1>2, <1>4

LEMMA DeliverWorking ==
    ASSUME HealthyInv, NEW s \in Ranks, Deliver(s), NEW q \in Ranks
    PROVE  Working(q)'
<1> DEFINE d == NextRank(s)
           send == Head(send_queue[s])
           recv == Head(recv_queue[d])
<1>1. d \in Ranks /\ TypeInv /\ LinkInv /\ Working(q) /\ Working(s) /\ Opcoded(s)
    BY Neighbours, HealthyFacts DEF HealthyAt, Holds
<1>2. /\ send_queue[s] \in Seq(SendWrs) /\ recv_queue[d] \in Seq(RecvWrs)
      /\ cq \in [Ranks -> Seq(Completions)] /\ unacknowledged \in [Ranks -> Seq(SendWrs)]
    BY <1>1 DEF TypeInv, TypeOK, TypeOKVerbs
<1>3. /\ 1 \in 1..Len(send_queue[s]) /\ send = send_queue[s][1] /\ send \in SendWrs
      /\ recv = recv_queue[d][1] /\ recv \in RecvWrs
    BY <1>2 DEF Deliver
<1>4. WellCoded(send)
    BY <1>1, <1>3 DEF Opcoded, WellCoded
<1>5. SendMatches(send, recv)
    <2>1. Matched(s)
        BY <1>1 DEF LinkInv, LinkOK, Working
    <2> QED
        BY <1>3, <2>1 DEF Matched, SendsMatched
<1>6. RecvCompletion(recv, send) \in Completions /\ Fine(RecvCompletion(recv, send))
    BY <1>3, <1>4, <1>5, CompletionTypes, DeliveredFine
<1>7. errored' = errored /\ qp_error' = qp_error
    BY DEF Deliver
<1>8. ASSUME NEW k \in 1..Len(cq'[q]) PROVE Fine(cq'[q][k])
    <2>1. CASE q = d
        <3>1. cq'[q] = Append(cq[q], RecvCompletion(recv, send))
            BY <1>2, <2>1 DEF Deliver
        <3>2. cq[q] \in Seq(Completions)
            BY <1>2
        <3> HIDE DEF send, recv
        <3>3. \/ k \in 1..Len(cq[q]) /\ cq'[q][k] = cq[q][k]
              \/ cq'[q][k] = RecvCompletion(recv, send)
            BY <1>6, <1>8, <3>1, <3>2, EntryAppend
        <3> QED
            BY <1>1, <1>6, <3>3 DEF Working
    <2>2. CASE q # d
        <3>1. cq'[q] = cq[q]
            BY <1>2, <2>2 DEF Deliver
        <3> QED
            BY <1>1, <1>8, <3>1 DEF Working
    <2> QED
        BY <2>1, <2>2
<1>9. ASSUME NEW k \in 1..Len(unacknowledged'[q]) PROVE WellCoded(unacknowledged'[q][k])
    <2>1. CASE q = s
        <3>1. unacknowledged'[q] = Append(unacknowledged[q], send)
            BY <1>2, <2>1 DEF Deliver
        <3>2. unacknowledged[q] \in Seq(SendWrs)
            BY <1>2
        <3> HIDE DEF send
        <3>3. \/ k \in 1..Len(unacknowledged[q]) /\ unacknowledged'[q][k] = unacknowledged[q][k]
              \/ unacknowledged'[q][k] = send
            BY <1>3, <1>9, <3>1, <3>2, EntryAppend
        <3> QED
            BY <1>1, <1>4, <3>3 DEF Working
    <2>2. CASE q # s
        <3>1. unacknowledged'[q] = unacknowledged[q]
            BY <1>2, <2>2 DEF Deliver
        <3> QED
            BY <1>1, <1>9, <3>1 DEF Working
    <2> QED
        BY <2>1, <2>2
<1> QED
    BY <1>1, <1>7, <1>8, <1>9 DEF Working, Fine, Unexpected, WellCoded

LEMMA AcknowledgeWorking ==
    ASSUME HealthyInv, NEW s \in Ranks, Acknowledge(s), NEW q \in Ranks
    PROVE  Working(q)'
<1> DEFINE send == Head(unacknowledged[s])
<1>1. TypeInv /\ HeldInv /\ Working(q) /\ Working(s)
    BY HealthyFacts DEF HealthyAt
<1>2. /\ unacknowledged[s] \in Seq(SendWrs)
      /\ cq \in [Ranks -> Seq(Completions)] /\ unacknowledged \in [Ranks -> Seq(SendWrs)]
    BY <1>1 DEF TypeInv, TypeOK, TypeOKVerbs
<1>3. /\ 1 \in 1..Len(unacknowledged[s]) /\ send = unacknowledged[s][1] /\ send \in SendWrs
      /\ unacknowledged[s] # <<>>
    BY <1>2 DEF Acknowledge
<1>4. WellCoded(send)
    BY <1>1, <1>3 DEF Working
<1>5. send.wr_id.kind = "send"
    <2>1. send.wr_id \in Acknowledged(s)
        BY <1>3 DEF Acknowledged, Named
    <2> QED
        BY <1>1, <2>1 DEF HeldInv, Tracked
<1>6. SendCompletion(send, TRUE) \in Completions /\ Fine(SendCompletion(send, TRUE))
    <2>1. SendCompletion(send, TRUE) \in Completions
        BY <1>3 DEF SendCompletion, Completion, Completions, SendWrs, RequestStates,
                    NoImmediate
    <2> QED
        BY <1>4, <1>5, <2>1, AcknowledgedFine
<1>7. errored' = errored /\ qp_error' = qp_error
    BY DEF Acknowledge
<1>8. ASSUME NEW k \in 1..Len(cq'[q]) PROVE Fine(cq'[q][k])
    <2>1. CASE q = s
        <3>1. cq'[q] = Append(cq[q], SendCompletion(send, TRUE))
            BY <1>2, <2>1 DEF Acknowledge
        <3>2. cq[q] \in Seq(Completions)
            BY <1>2
        <3> HIDE DEF send
        <3>3. \/ k \in 1..Len(cq[q]) /\ cq'[q][k] = cq[q][k]
              \/ cq'[q][k] = SendCompletion(send, TRUE)
            BY <1>6, <1>8, <3>1, <3>2, EntryAppend, ZenonT(30)
        <3> QED
            BY <1>1, <1>6, <3>3 DEF Working
    <2>2. CASE q # s
        <3>1. cq'[q] = cq[q]
            BY <1>2, <2>2 DEF Acknowledge
        <3> QED
            BY <1>1, <1>8, <3>1 DEF Working
    <2> QED
        BY <2>1, <2>2
<1>9. ASSUME NEW k \in 1..Len(unacknowledged'[q]) PROVE WellCoded(unacknowledged'[q][k])
    <2>1. CASE q = s
        <3>1. unacknowledged'[q] = Tail(unacknowledged[q]) /\ unacknowledged[q] # <<>>
            BY <1>2, <2>1 DEF Acknowledge
        <3>2. unacknowledged[q] \in Seq(SendWrs)
            BY <1>2
        <3> QED
            BY <1>1, <1>9, <3>1, <3>2, EntryTail DEF Working
    <2>2. CASE q # s
        <3>1. unacknowledged'[q] = unacknowledged[q]
            BY <1>2, <2>2 DEF Acknowledge
        <3> QED
            BY <1>1, <1>9, <3>1 DEF Working
    <2> QED
        BY <2>1, <2>2
<1> QED
    BY <1>1, <1>7, <1>8, <1>9 DEF Working, Fine, Unexpected, WellCoded

LEMMA FabricHealthy ==
    ASSUME HealthyInv, Healthy, NEW s \in Ranks, Fabric(s)
    PROVE  \A q \in Ranks : HealthyAt(q)'
<1>1. Working(s)
    BY HealthyFacts DEF HealthyAt
<1>2. ~BreakLink(s) /\ ~FlushSend(s)
    BY <1>1 DEF Healthy, BreakLink, FlushSend, Working
<1>3. Deliver(s) \/ Acknowledge(s)
    BY <1>2 DEF Fabric
<1>4. UNCHANGED program_vars /\ control' = control
    BY <1>3 DEF Fabric, Deliver, Acknowledge
<1> QED
    BY <1>3, <1>4, FabricKeeps, DeliverWorking, AcknowledgeWorking DEF HealthyAt

LEMMA InitHealthy == Init => HealthyInv
<1> SUFFICES ASSUME Init PROVE HealthyInv
    OBVIOUS
<1>1. DataInv
    BY InitData
<1>2. ASSUME NEW r \in Ranks PROVE HealthyAt(r)
    <2>1. /\ pc[r] = "idle" /\ returned[r] = <<>> /\ calls[r] = 0
          /\ sequence[r] = FirstSequence /\ control[r] = <<>> /\ cq[r] = <<>>
          /\ unacknowledged[r] = <<>> /\ errored[r] = {} /\ qp_error[r] = FALSE
        BY DEF Init, InitProgram, InitVerbs
    <2>2. FirstSequence \in Nat /\ \A k : k \in 1..Len(<<>>) => FALSE
        BY CollectiveAssumption
    <2> QED
        BY <2>1, <2>2 DEF HealthyAt, Flawless, Sequenced, Labelled, Working
<1> QED
    BY <1>1, <1>2 DEF HealthyInv

LEMMA NextHealthy ==
    ASSUME Healthy
    PROVE  HealthyInv /\ [Next]_vars => HealthyInv'
<1> SUFFICES ASSUME HealthyInv, [Next]_vars PROVE HealthyInv'
    OBVIOUS
<1>1. DataInv'
    BY HealthyFacts, NextData DEF Healthy
<1>2. ASSUME NEW r \in Ranks, RunRank(r) PROVE \A q \in Ranks : HealthyAt(q)'
    BY <1>2, RunHealthy
<1>3. ASSUME NEW r \in Ranks, Fabric(r) PROVE \A q \in Ranks : HealthyAt(q)'
    BY <1>3, FabricHealthy
<1>4. ASSUME UNCHANGED vars PROVE \A q \in Ranks : HealthyAt(q)'
    <2>1. UNCHANGED program_vars /\ UNCHANGED verbs_vars
        BY <1>4 DEF vars
    <2>2. \A q \in Ranks : Flawless(q)' /\ Sequenced(q)' /\ Labelled(q)'
        BY <2>1, FabricKeeps DEF verbs_vars
    <2>3. \A q \in Ranks : Working(q)'
        BY <2>1, HealthyFacts DEF verbs_vars, HealthyAt, Working
    <2> QED
        BY <2>2, <2>3 DEF HealthyAt
<1> QED
    BY <1>1, <1>2, <1>3, <1>4 DEF HealthyInv, Next, Finished

\* In a healthy group no call fails, whatever the order of its steps
\* (VerbsRing!NeverFails).
THEOREM HealthyNeverFails ==
    ASSUME Healthy
    PROVE  Spec => []NeverFails
<1>1. HealthyInv => NeverFails
    BY HealthyFacts DEF NeverFails
<1> QED
    BY <1>1, InitHealthy, NextHealthy, PTL DEF Spec

\* And neighbours are never more than a ring step apart, with no block empty:
\* the pieces alone keep the ranks in step (VerbsRing!NeighboursInStep).
THEOREM HealthyKeepsStep ==
    ASSUME Healthy
    PROVE  Spec => []NeighboursInStep
<1>1. Spec => [](NeverFails => NeighboursInStep)
    BY NeighboursKeepStep DEF Healthy
<1> QED
    BY <1>1, HealthyNeverFails, PTL

-----------------------------------------------------------------------------
(* The group as an all-reduce.                                               *)

\* Every contribution combined into a value is of a call its rank has entered.
EnteredBy(value, entered) ==
    \A i \in 1..Len(value) : value[i][2] <= entered[value[i][1]]

EnteredInv ==
    \A r \in Ranks : \A buffer \in {"workbuf", "temporary_buffer"} :
        \A e \in Elements(buffer) : EnteredBy(memory[r][buffer][e], calls)

LEMMA EnteredLater ==
    ASSUME NEW value \in Seq(Contributions), NEW before \in [Ranks -> Nat],
           NEW after \in [Ranks -> Nat], \A r \in Ranks : before[r] <= after[r],
           EnteredBy(value, before)
    PROVE  EnteredBy(value, after)
<1> SUFFICES ASSUME NEW i \in 1..Len(value) PROVE value[i][2] <= after[value[i][1]]
    BY DEF EnteredBy
<1>1. value[i] \in Contributions
    BY ElementOfSeq
<1>2. value[i][1] \in Ranks /\ value[i][2] \in Nat
    BY <1>1 DEF Contributions
<1>3. value[i][2] <= before[value[i][1]]
    BY DEF EnteredBy
<1> QED
    BY <1>2, <1>3

LEMMA EnteredJoined ==
    ASSUME NEW one \in Seq(Contributions), NEW other \in Seq(Contributions), NEW entered,
           EnteredBy(one, entered), EnteredBy(other, entered)
    PROVE  EnteredBy(one \o other, entered)
<1> SUFFICES ASSUME NEW k \in 1..Len(one \o other)
             PROVE  (one \o other)[k][2] <= entered[(one \o other)[k][1]]
    BY DEF EnteredBy
<1>1. \/ k \in 1..Len(one) /\ (one \o other)[k] = one[k]
      \/ k - Len(one) \in 1..Len(other) /\ (one \o other)[k] = other[k - Len(one)]
    BY JoinedEntries
<1> QED
    BY <1>1 DEF EnteredBy

LEMMA ContentsEntered ==
    ASSUME TypeOKMemory, EnteredInv, NEW r \in Ranks, NEW region \in Regions,
           NEW i \in 0..(region.length - 1)
    PROVE  /\ Contents(r, region)[i] \in Seq(Contributions)
           /\ EnteredBy(Contents(r, region)[i], calls)
<1>1. /\ region.buffer \in {"workbuf", "temporary_buffer"}
      /\ region.first \in Nat /\ region.length \in Nat
      /\ region.first + region.length <= BufferLength[region.buffer]
    BY DEF Regions, BufferLength
<1>2. TemporaryLength \in Nat /\ Count \in Nat
    BY DivMod, WorldAssumption, CountAssumption DEF TemporaryLength
<1>3. region.first + i \in Elements(region.buffer)
    BY <1>1, <1>2 DEF Elements, BufferLength
<1>4. Contents(r, region)[i] = memory[r][region.buffer][region.first + i]
    BY DEF Contents
<1> QED
    BY <1>1, <1>3, <1>4, ContentsType DEF EnteredInv

LEMMA StoredEntered ==
    ASSUME TypeOKMemory, EnteredInv, NEW r \in Ranks, NEW region \in Regions, NEW data,
           DOMAIN data = 0..(region.length - 1), memory' = Stored(r, region, data),
           \A i \in 0..(region.length - 1) : EnteredBy(data[i], calls), calls' = calls
    PROVE  EnteredInv'
<1>1. /\ region.buffer \in {"workbuf", "temporary_buffer"}
      /\ region.first \in Nat /\ region.length \in Nat
    BY DEF Regions, BufferLength
<1>2. TemporaryLength \in Nat /\ Count \in Nat
    BY DivMod, WorldAssumption, CountAssumption DEF TemporaryLength
<1>3. SUFFICES ASSUME NEW q \in Ranks, NEW buffer \in {"workbuf", "temporary_buffer"},
                      NEW e \in Elements(buffer)
               PROVE  EnteredBy(memory'[q][buffer][e], calls)
    BY DEF EnteredInv, Elements, BufferLength, TemporaryLength
<1>4. EnteredBy(memory[q][buffer][e], calls)
    BY DEF EnteredInv
<1>5. CASE q # r
    BY <1>4, <1>5, StoredValues
<1>6. CASE q = r /\ buffer # region.buffer
    BY <1>1, <1>4, <1>6, StoredValues
<1>7. CASE q = r /\ buffer = region.buffer
    <2>1. memory'[r][region.buffer][e] =
            IF region.first <= e /\ e < region.first + region.length
            THEN data[e - region.first] ELSE memory[r][region.buffer][e]
        BY <1>7, StoredValues
    <2>2. e \in Int
        BY <1>2 DEF Elements, BufferLength
    <2>3. CASE region.first <= e /\ e < region.first + region.length
        <3>1. e - region.first \in 0..(region.length - 1)
            BY <1>1, <2>2, <2>3
        <3> QED
            BY <1>7, <2>1, <2>3, <3>1
    <2>4. CASE ~(region.first <= e /\ e < region.first + region.length)
        BY <1>4, <1>7, <2>1, <2>4
    <2> QED
        BY <2>3, <2>4
<1> QED
    BY <1>5, <1>6, <1>7

LEMMA EnteredKept ==
    ASSUME TypeInv, TypeInv', EnteredInv, memory' = memory,
           \A q \in Ranks : calls[q] <= calls'[q]
    PROVE  EnteredInv'
<1>1. calls \in [Ranks -> Nat] /\ calls' \in [Ranks -> Nat]
    <2>1. Len(Calls) \in Nat
        BY CollectiveAssumption
    <2>2. calls \in [Ranks -> 0..Len(Calls)] /\ calls' \in [Ranks -> 0..Len(Calls)]
        BY DEF TypeInv, TypeOK, TypeOKProgram
    <2> QED
        BY <2>1, <2>2
<1>2. SUFFICES ASSUME NEW q \in Ranks, NEW buffer \in {"workbuf", "temporary_buffer"},
                      NEW e \in Elements(buffer)
               PROVE  EnteredBy(memory[q][buffer][e], calls')
    BY DEF EnteredInv, Elements, BufferLength, TemporaryLength
<1>3. EnteredBy(memory[q][buffer][e], calls)
    BY DEF EnteredInv
<1>4. memory[q][buffer][e] \in Seq(Contributions)
    BY DEF TypeInv, TypeOK, TypeOKMemory
<1> QED
    BY <1>1, <1>3, <1>4, EnteredLater

LEMMA RunEntered ==
    ASSUME AlignedInv, TypeInv', EnteredInv, ContinueAfterError = FALSE, NEW r \in Ranks,
           RunRank(r)
    PROVE  EnteredInv'
<1>1. PlacedInv /\ TypeInv /\ TypeOKMemory /\ RecvBlock(r) \in Ranks
    BY DataFacts
<1>2. calls \in [Ranks -> Nat] /\ calls' \in [Ranks -> Nat]
    <2>1. Len(Calls) \in Nat
        BY CollectiveAssumption
    <2>2. calls \in [Ranks -> 0..Len(Calls)] /\ calls' \in [Ranks -> 0..Len(Calls)]
        BY <1>1 DEF TypeInv, TypeOK, TypeOKProgram
    <2> QED
        BY <2>1, <2>2
<1>3. \A q \in Ranks \ {r} : calls'[q] = calls[q]
    BY <1>1, RunOthers DEF ProgramOthers
<1>4. CASE memory' = memory /\ (calls'[r] = calls[r] \/ calls'[r] = calls[r] + 1)
    <2>1. \A q \in Ranks : calls[q] <= calls'[q]
        BY <1>2, <1>3, <1>4
    <2> QED
        BY <1>1, <1>4, <2>1, EnteredKept
<1>5. CASE Reduces(r)
    <2>1. PICK posted : posted = Head(recv_requests[r])
        OBVIOUS
    <2> DEFINE target == ReduceTarget(r, posted)
               source == ReduceSource(posted)
    <2>2. PICK data : data = reduce_in_place(Contents(r, target), Contents(r, source))
        OBVIOUS
    <2>3. AboutToReduce(r) /\ memory' = Stored(r, target, data) /\ calls'[r] = calls[r]
        BY <1>5, <2>1, <2>2 DEF Reduces
    <2>4. /\ target \in Regions /\ source \in Regions /\ source.length = target.length
          /\ DOMAIN data = 0..(target.length - 1)
        BY <1>1, <2>1, <2>2, <2>3, ReducedData
    <2> HIDE DEF target, source
    <2>5. ASSUME NEW i \in 0..(target.length - 1) PROVE EnteredBy(data[i], calls)
        <3>1. i \in DOMAIN Contents(r, target)
            BY <1>1, <2>4, ContentsType
        <3>2. data[i] = Contents(r, target)[i] \o Contents(r, source)[i]
            BY <2>2, <3>1 DEF reduce_in_place
        <3>3. /\ Contents(r, target)[i] \in Seq(Contributions)
              /\ EnteredBy(Contents(r, target)[i], calls)
            BY <1>1, <2>4, ContentsEntered
        <3>4. /\ Contents(r, source)[i] \in Seq(Contributions)
              /\ EnteredBy(Contents(r, source)[i], calls)
            BY <1>1, <2>4, ContentsEntered
        <3> QED
            BY <3>2, <3>3, <3>4, EnteredJoined
    <2>6. calls' = calls
        BY <1>2, <1>3, <2>3
    <2> QED
        BY <1>1, <2>3, <2>4, <2>5, <2>6, StoredEntered
<1>6. CASE Begins(r)
    <2>1. SUFFICES ASSUME NEW q \in Ranks, NEW buffer \in {"workbuf", "temporary_buffer"},
                          NEW e \in Elements(buffer)
                   PROVE  EnteredBy(memory'[q][buffer][e], calls')
        BY DEF EnteredInv, Elements, BufferLength, TemporaryLength
    <2>2. /\ memory' = [memory EXCEPT ![r].workbuf =
                          [x \in Elements("workbuf") |-> <<(<<r, calls[r] + 1>>)>>]]
          /\ calls'[r] = calls[r] + 1
        BY <1>6 DEF Begins
    <2>3. CASE q = r /\ buffer = "workbuf"
        <3>1. memory'[q][buffer][e] = <<(<<r, calls[r] + 1>>)>>
            BY <1>1, <2>2, <2>3 DEF TypeOKMemory
        <3>2. PICK c : c = calls[r] + 1 /\ c = calls'[r] /\ c \in Nat
            BY <1>2, <2>2
        <3>3. memory'[q][buffer][e] = <<(<<r, c>>)>>
            BY <3>1, <3>2
        <3>4. /\ Len(<<(<<r, c>>)>>) = 1 /\ <<(<<r, c>>)>>[1] = <<r, c>>
              /\ <<r, c>>[1] = r /\ <<r, c>>[2] = c /\ c <= c
            BY <3>2
        <3>5. \A i \in 1..1 : i = 1
            OBVIOUS
        <3> HIDE DEF EnteredBy
        <3>6. EnteredBy(<<(<<r, c>>)>>, calls')
            BY <3>2, <3>4, <3>5, Zenon DEF EnteredBy
        <3> QED
            BY <3>3, <3>6
    <2>4. CASE q # r \/ buffer # "workbuf"
        <3>1. memory'[q][buffer][e] = memory[q][buffer][e]
            BY <1>1, <2>2, <2>4 DEF TypeOKMemory
        <3>2. EnteredBy(memory[q][buffer][e], calls)
            BY DEF EnteredInv
        <3>3. memory[q][buffer][e] \in Seq(Contributions)
            BY <1>1 DEF TypeOKMemory
        <3>4. \A x \in Ranks : calls[x] <= calls'[x]
            BY <1>2, <1>3, <2>2
        <3>5. EnteredBy(memory[q][buffer][e], calls')
            BY <1>2, <3>2, <3>3, <3>4, EnteredLater
        <3> QED
            BY <3>1, <3>5
    <2> QED
        BY <2>3, <2>4
<1>7. Course(r)
    BY RunCourse
<1> QED
    BY <1>4, <1>5, <1>6, <1>7 DEF Course, Quiet, GoesOn, Succeeds, Failing

LEMMA FabricEntered ==
    ASSUME DataInv, TypeInv', EnteredInv, NEW s \in Ranks, Fabric(s)
    PROVE  EnteredInv'
<1>1. AlignedInv /\ Opcoded(s) /\ TypeInv /\ TypeOKMemory
    BY DataFacts DEF DataInv, Holds
<1>2. calls' = calls /\ calls \in [Ranks -> 0..Len(Calls)]
    BY <1>1 DEF Fabric, program_vars, TypeInv, TypeOK, TypeOKProgram
<1>3. CASE Deliver(s)
    <2>1. PICK d, region, origin :
            d = NextRank(s) /\ region = Destination(s) /\ origin = Origin(s)
        OBVIOUS
    <2>2. /\ region \in Regions /\ region.length = origin.length /\ d \in Ranks
          /\ memory' = Stored(d, region, Contents(s, origin))
          /\ DOMAIN Contents(s, origin) = 0..(region.length - 1)
          /\ send_queue[s] # <<>> /\ send_queue[s] \in Seq(SendWrs)
        BY <1>1, <1>3, <2>1, DeliveryFacts, Neighbours
    <2>3. origin \in Regions
        <3>1. Head(send_queue[s]) \in SendWrs
            BY <2>2
        <3> QED
            BY <2>1, <3>1 DEF Origin, SendWrs
    <2>4. \A i \in 0..(region.length - 1) : EnteredBy(Contents(s, origin)[i], calls)
        BY <1>1, <2>2, <2>3, ContentsEntered
    <2>5. PICK data : data = Contents(s, origin)
        OBVIOUS
    <2> QED
        BY <1>1, <1>2, <2>2, <2>4, <2>5, StoredEntered
<1>4. CASE ~Deliver(s)
    <2>1. memory' = memory
        BY <1>4 DEF Fabric, Acknowledge, BreakLink, FlushSend
    <2>2. \A q \in Ranks : calls[q] <= calls'[q]
        <3>1. Len(Calls) \in Nat
            BY CollectiveAssumption
        <3>2. \A q \in Ranks : calls[q] \in Int
            BY <1>2, <3>1
        <3> QED
            BY <1>2, <3>2
    <2> QED
        BY <1>1, <2>1, <2>2, EnteredKept
<1> QED
    BY <1>3, <1>4

\* The invariant of the refinement.
GroupInv == HealthyInv /\ EnteredInv

LEMMA InitGroup == Init => GroupInv
<1> SUFFICES ASSUME Init PROVE GroupInv
    OBVIOUS
<1>1. ASSUME NEW r \in Ranks, NEW buffer \in {"workbuf", "temporary_buffer"},
             NEW e \in Elements(buffer)
      PROVE  EnteredBy(memory[r][buffer][e], calls)
    <2>1. memory[r][buffer][e] = <<>>
        BY DEF Init, InitMemory
    <2>2. \A i : i \in 1..Len(<<>>) => FALSE
        OBVIOUS
    <2> QED
        BY <2>1, <2>2 DEF EnteredBy
<1> QED
    BY <1>1, InitHealthy DEF GroupInv, EnteredInv

LEMMA NextGroup ==
    ASSUME Healthy
    PROVE  GroupInv /\ [Next]_vars => GroupInv'
<1> SUFFICES ASSUME GroupInv, [Next]_vars PROVE GroupInv'
    OBVIOUS
<1>1. HealthyInv /\ HealthyInv' /\ EnteredInv
    BY NextHealthy DEF GroupInv
<1>2. DataInv /\ AlignedInv /\ TypeInv /\ TypeInv'
    <2>1. DataInv /\ AlignedInv /\ TypeInv
        BY <1>1, HealthyFacts
    <2> QED
        BY <2>1, NextTypes
<1>3. ASSUME NEW r \in Ranks, RunRank(r) PROVE EnteredInv'
    BY <1>1, <1>2, <1>3, RunEntered DEF Healthy
<1>4. ASSUME NEW s \in Ranks, Fabric(s) PROVE EnteredInv'
    BY <1>1, <1>2, <1>4, FabricEntered
<1>5. ASSUME UNCHANGED vars PROVE EnteredInv'
    <2>1. memory' = memory /\ calls' = calls
        BY <1>5 DEF vars, program_vars
    <2> QED
        BY <1>1, <2>1 DEF EnteredInv, Elements, BufferLength, TemporaryLength
<1> QED
    BY <1>1, <1>3, <1>4, <1>5 DEF GroupInv, Next, Finished

\* The arrays that calls returned, in order.
Arrays(queue) == [c \in 1..Len(queue) |-> queue[c].recvbuf]
Results == [r \in Ranks |-> Arrays(returned[r])]

LEMMA ArraysAppend ==
    ASSUME NEW S, NEW queue \in Seq(S), NEW entry
    PROVE  Arrays(Append(queue, entry)) = Append(Arrays(queue), entry.recvbuf)
<1>1. PICK n \in Nat : n = Len(queue)
    OBVIOUS
<1>2. /\ Len(Append(queue, entry)) = n + 1 /\ Append(queue, entry)[n + 1] = entry
      /\ \A c \in 1..n : Append(queue, entry)[c] = queue[c]
    BY <1>1
<1>3. PICK T : T = {queue[c].recvbuf : c \in 1..n}
    OBVIOUS
<1>4. Arrays(queue) \in Seq(T) /\ Len(Arrays(queue)) = n
    BY <1>1, <1>3 DEF Arrays
<1>5. PICK arrays : arrays = Arrays(queue)
    OBVIOUS
<1>6. \A c \in 1..n : arrays[c] = queue[c].recvbuf
    BY <1>1, <1>5 DEF Arrays
<1>7. Append(arrays, entry.recvbuf)
        = [c \in 1..(n + 1) |-> IF c = n + 1 THEN entry.recvbuf ELSE arrays[c]]
    BY <1>4, <1>5
<1>8. \A c \in 1..(n + 1) : c # n + 1 => c \in 1..n
    BY <1>1
<1>9. Arrays(Append(queue, entry)) = [c \in 1..(n + 1) |-> Append(queue, entry)[c].recvbuf]
    BY <1>2 DEF Arrays
<1> QED
    BY <1>2, <1>5, <1>6, <1>7, <1>8, <1>9

\* What a call of a healthy group has returned.
LEMMA ReturnedArrays ==
    ASSUME HealthyInv, NEW r \in Ranks
    PROVE  /\ Len(Results[r]) = (IF pc[r] = "idle" THEN calls[r] ELSE calls[r] - 1)
           /\ Len(Results[r]) \in Nat
           /\ \A c \in 1..Len(Results[r]) :
                 /\ Results[r][c] \in [Elements("workbuf") -> Seq(Contributions)]
                 /\ \A block \in Ranks : \A e \in BlockElements(block) :
                       Results[r][c][e] = Final(block, c)
<1>1. TypeOKProgram(RequestStates) /\ Flawless(r) /\ Recorded(r)
    BY HealthyFacts DEF HealthyAt, Holds, TypeOK
<1>2. PICK S : /\ S = [status : Statuses, recvbuf : [Elements("workbuf") -> Seq(Contributions)]]
               /\ returned[r] \in Seq(S)
    BY <1>1 DEF TypeOKProgram
<1>3. Results[r] = Arrays(returned[r])
    BY DEF Results
<1>4. PICK n \in Nat : n = Len(returned[r])
    BY <1>2
<1>5. Len(Arrays(returned[r])) = n /\ \A c \in 1..n : Arrays(returned[r])[c] = returned[r][c].recvbuf
    BY <1>4 DEF Arrays
<1>6. \A c \in 1..n : returned[r][c] \in S
    BY <1>2, <1>4, ElementOfSeq
<1>7. \A c \in 1..n : returned[r][c].recvbuf \in [Elements("workbuf") -> Seq(Contributions)]
    BY <1>2, <1>6
<1>8. \A c \in 1..n : returned[r][c].status = PG_SUCCESS
    BY <1>1, <1>4 DEF Flawless
<1>9. n = (IF pc[r] = "idle" THEN calls[r] ELSE calls[r] - 1)
    BY <1>1, <1>4 DEF Recorded
<1>10. \A c \in 1..n : \A block \in Ranks : \A e \in BlockElements(block) :
          returned[r][c].recvbuf[e] = Final(block, c)
    BY <1>1, <1>4, <1>8 DEF Recorded
<1>11. PICK Array : Array = [Elements("workbuf") -> Seq(Contributions)]
    OBVIOUS
<1>12. \A c \in 1..n : returned[r][c].recvbuf \in Array
    BY <1>7, <1>11
<1>13. \A c \in 1..Len(Results[r]) : Results[r][c] \in Array
    BY <1>3, <1>5, <1>12
<1>14. \A c \in 1..Len(Results[r]) : \A block \in Ranks : \A e \in BlockElements(block) :
          Results[r][c][e] = Final(block, c)
    BY <1>3, <1>5, <1>10
<1> QED
    BY <1>3, <1>4, <1>5, <1>9, <1>11, <1>13, <1>14

\* The array of a call is the same at every rank.
LEMMA SameArrays ==
    ASSUME NEW first \in [Elements("workbuf") -> Seq(Contributions)],
           NEW second \in [Elements("workbuf") -> Seq(Contributions)], NEW c,
           \A block \in Ranks : \A e \in BlockElements(block) :
              first[e] = Final(block, c) /\ second[e] = Final(block, c)
    PROVE  first = second
<1>1. \A e \in Elements("workbuf") : first[e] = second[e]
    BY ElementInBlock
<1> QED
    BY <1>1

\* A reduced block combines what all ranks contributed.
LEMMA FinalCombination ==
    ASSUME NEW block \in Ranks, NEW c
    PROVE  Abstract!Combination(Final(block, c), c)
<1>1. PICK value : value = Final(block, c)
    OBVIOUS
<1>2. WorldSize \in Nat /\ WorldSize \in 0..WorldSize /\ Back(block, 1) \in Ranks
    <2>1. 1 \in 0..WorldSize /\ WorldSize \in 0..WorldSize /\ WorldSize \in Nat
        BY WorldAssumption
    <2> QED
        BY <2>1, BackFacts
<1>3. value \in Seq(Ranks \X {c}) /\ Len(value) = WorldSize
    BY <1>1, <1>2, RunType DEF Final
<1>4. \A r \in Ranks : \E i \in 1..WorldSize : value[i] = <<r, c>>
    BY <1>1, <1>3, FinalCombines DEF Combines
<1>5. Cardinality(Ranks) = WorldSize
    <2>1. Cardinality(0..(WorldSize - 1)) = IF 0 > WorldSize - 1 THEN 0
                                           ELSE (WorldSize - 1) - 0 + 1
        BY <1>2, FS_Interval
    <2> QED
        BY <1>2, <2>1, WorldAssumption DEF Ranks
<1>6. DOMAIN value = 1..WorldSize
    BY <1>3
<1>7. {value[i] : i \in DOMAIN value} = Ranks \X {c}
    <2>1. \A i \in 1..WorldSize : value[i] \in Ranks \X {c}
        BY <1>3
    <2>2. \A pair \in Ranks \X {c} : \E i \in 1..WorldSize : value[i] = pair
        BY <1>4
    <2> QED
        BY <1>6, <2>1, <2>2
<1>8. Abstract!Cardinality(Ranks) = Cardinality(Ranks)
    BY DEF Abstract!Cardinality, Cardinality
<1> QED
    BY <1>1, <1>5, <1>6, <1>7, <1>8, Zenon DEF Abstract!Combination

\* A call that begins enters the all-reduce.
LEMMA BeginsEnters ==
    ASSUME HealthyInv, TypeInv', NEW r \in Ranks, Begins(r), ProgramOthers(r)
    PROVE  Abstract!Enter(r)
<1>1. /\ calls \in [Ranks -> 0..Len(Calls)] /\ calls' \in [Ranks -> 0..Len(Calls)]
      /\ Len(Calls) \in Nat
    <2>1. TypeInv
        BY HealthyFacts
    <2>2. Len(Calls) \in Nat
        BY CollectiveAssumption
    <2> QED
        BY <2>1, <2>2 DEF TypeInv, TypeOK, TypeOKProgram
<1>2. calls[r] = Len(Results[r])
    BY ReturnedArrays DEF Begins
<1>3. calls[r] < Len(Calls)
    BY <1>1 DEF Begins
<1>4. calls' = [calls EXCEPT ![r] = @ + 1]
    BY <1>1 DEF Begins, ProgramOthers
<1>5. Results' = Results
    <2>1. \A q \in Ranks : returned'[q] = returned[q]
        BY DEF Begins, ProgramOthers
    <2> QED
        BY <2>1 DEF Results
<1> QED
    BY <1>2, <1>3, <1>4, <1>5 DEF Abstract!Enter, Abstract!Idle, Results, Arrays

\* A call that succeeds returns from the all-reduce: all ranks have entered it,
\* since all are in the sums, and its array is the one the other ranks return.
LEMMA ArrayReturned ==
    ASSUME HealthyInv, HealthyInv', NEW r \in Ranks, Succeeds(r), ProgramOthers(r)
    PROVE  \E array \in [Elements("workbuf") -> Seq(Contributions)] :
              /\ array = memory[r].workbuf
              /\ Results' = [Results EXCEPT ![r] = Append(Results[r], array)]
              /\ Len(Results[r]) = calls[r] - 1 /\ calls[r] \in Nat
              /\ Len(Results'[r]) = calls[r] /\ Results'[r][calls[r]] = array
              /\ \A block \in Ranks : \A e \in BlockElements(block) :
                    array[e] = Final(block, calls[r])
<1>1. TypeOKProgram(RequestStates) /\ TypeOKMemory /\ calls[r] \in Nat
    <2>1. TypeOKProgram(RequestStates) /\ TypeOKMemory
        BY HealthyFacts DEF TypeOK
    <2>2. calls[r] \in 0..Len(Calls) /\ Len(Calls) \in Nat
        BY <2>1, CollectiveAssumption DEF TypeOKProgram
    <2> QED
        BY <2>1, <2>2
<1>2. PICK array : array = memory[r].workbuf
    OBVIOUS
<1>3. array \in [Elements("workbuf") -> Seq(Contributions)]
    BY <1>1, <1>2 DEF TypeOKMemory
<1>4. PICK S : returned[r] \in Seq(S)
    BY <1>1 DEF TypeOKProgram
<1>5. Arrays(returned'[r]) = Append(Arrays(returned[r]), array)
    <2>1. PICK entry : entry = [status |-> PG_SUCCESS, recvbuf |-> array]
        OBVIOUS
    <2>2. returned'[r] = Append(returned[r], entry) /\ entry.recvbuf = array
        BY <1>2, <2>1 DEF Succeeds
    <2> QED
        BY <1>4, <2>2, ArraysAppend
<1>6. \A q \in Ranks \ {r} : returned'[q] = returned[q]
    BY DEF ProgramOthers
<1>7. Results' = [Results EXCEPT ![r] = Append(Results[r], array)]
    BY <1>5, <1>6 DEF Results
<1>8. Len(Results[r]) = calls[r] - 1 /\ Len(Results[r]) \in Nat
    <2>1. /\ Len(Results[r]) = (IF pc[r] = "idle" THEN calls[r] ELSE calls[r] - 1)
          /\ Len(Results[r]) \in Nat
        BY ReturnedArrays, Zenon
    <2>2. pc[r] # "idle"
        BY DEF Succeeds, Completes
    <2> QED
        BY <2>1, <2>2
<1>9. Results'[r] = Append(Arrays(returned[r]), array) /\ Results[r] = Arrays(returned[r])
    BY <1>5 DEF Results
<1>10. PICK n, fields : fields = Arrays(returned[r]) /\ n = Len(fields) /\ n \in Nat
    BY <1>8, <1>9
<1>11. PICK T : fields \in Seq(T)
    <2>1. PICK m \in Nat : m = Len(returned[r])
        BY <1>4
    <2>2. fields = [c \in 1..m |-> returned[r][c].recvbuf]
        BY <1>10, <2>1 DEF Arrays
    <2>3. fields \in Seq({returned[r][c].recvbuf : c \in 1..m})
        BY <2>2
    <2> QED
        BY <2>3
<1>12. Len(Append(fields, array)) = n + 1 /\ Append(fields, array)[n + 1] = array
    BY <1>10, <1>11
<1>13. n + 1 = calls[r]
    BY <1>1, <1>8, <1>9, <1>10
<1>14. /\ Recorded(r)' /\ Len(returned'[r]) = calls[r]
       /\ returned'[r][calls[r]] = [status |-> PG_SUCCESS, recvbuf |-> array]
    <2>1. Recorded(r)'
        BY DEF HealthyInv, DataInv, Holds
    <2>2. Len(returned[r]) = n
        BY <1>4, <1>10, <1>13, <1>8, <1>9 DEF Arrays
    <2>3. returned'[r] = Append(returned[r], [status |-> PG_SUCCESS, recvbuf |-> array])
        BY <1>2 DEF Succeeds
    <2> QED
        BY <1>4, <1>13, <2>1, <2>2, <2>3
<1>15. \A block \in Ranks : \A e \in BlockElements(block) : array[e] = Final(block, calls[r])
    <2>1. PICK c, back : c = calls[r] /\ back = returned'[r]
        OBVIOUS
    <2>2. /\ c \in 1..Len(back) /\ back[c].status = PG_SUCCESS /\ back[c].recvbuf = array
        <3>1. Len(back) = c /\ back[c] = [status |-> PG_SUCCESS, recvbuf |-> array]
            BY <1>14, <2>1
        <3>2. c \in 1..c
            BY <1>10, <1>13, <2>1
        <3> QED
            BY <3>1, <3>2
    <2>3. \A i \in 1..Len(back) : back[i].status = PG_SUCCESS =>
            \A block \in Ranks : \A e \in BlockElements(block) :
               back[i].recvbuf[e] = Final(block, i)
        BY <1>14, <2>1 DEF Recorded
    <2> QED
        BY <2>1, <2>2, <2>3
<1>16. Len(Results'[r]) = calls[r] /\ Results'[r][calls[r]] = array
    BY <1>9, <1>10, <1>12, <1>13
<1> QED
    BY <1>1, <1>2, <1>3, <1>7, <1>8, <1>15, <1>16

LEMMA SucceedsReturns ==
    ASSUME GroupInv, HealthyInv', TypeInv', NEW r \in Ranks, Succeeds(r), ProgramOthers(r)
    PROVE  Abstract!Return(r)
<1>1. HealthyInv /\ EnteredInv /\ TypeOK /\ TypeOKMemory /\ Located(r)
    BY HealthyFacts DEF GroupInv, TypeOK
<1>2. PICK array, c :
         /\ array \in [Elements("workbuf") -> Seq(Contributions)]
         /\ array = memory[r].workbuf /\ c = calls[r]
         /\ Results' = [Results EXCEPT ![r] = Append(Results[r], array)]
         /\ Len(Results[r]) = c - 1 /\ c \in Nat
         /\ Len(Results'[r]) = c /\ Results'[r][c] = array
         /\ \A block \in Ranks : \A e \in BlockElements(block) : array[e] = Final(block, c)
    BY <1>1, ArrayReturned
<1>3. calls' = calls
    <2>1. calls \in [Ranks -> 0..Len(Calls)] /\ calls' \in [Ranks -> 0..Len(Calls)]
        BY <1>1 DEF TypeInv, TypeOK, TypeOKProgram
    <2>2. \A q \in Ranks : calls'[q] = calls[q]
        BY DEF Succeeds, ProgramOthers
    <2> QED
        BY <2>1, <2>2
<1>4. \A e \in Elements("workbuf") : Abstract!Combination(array[e], c)
    BY <1>2, ElementInBlock, FinalCombination
<1>5. ASSUME NEW other \in Ranks PROVE calls[other] >= c
    <2>1. 0 \in Elements("workbuf")
        BY CountAssumption DEF Elements, BufferLength
    <2>2. EnteredBy(array[0], calls)
        BY <1>1, <1>2, <2>1 DEF EnteredInv
    <2>3. PICK i \in 1..Len(array[0]) : array[0][i] = <<other, c>>
        <3>1. PICK block \in Ranks : 0 \in BlockElements(block)
            BY <2>1, ElementInBlock
        <3>2. array[0] = Final(block, c)
            BY <1>2, <3>1
        <3>3. \E i \in 1..Len(Final(block, c)) : Final(block, c)[i] = <<other, c>>
            BY FinalCombines, Zenon DEF Combines
        <3> QED
            BY <3>2, <3>3, Zenon
    <2>4. array[0][i][2] <= calls[array[0][i][1]]
        BY <2>2, <2>3 DEF EnteredBy
    <2>5. c <= calls[other]
        BY <2>3, <2>4
    <2>6. calls[other] \in Int
        <3>1. calls[other] \in 0..Len(Calls) /\ Len(Calls) \in Nat
            BY <1>1, CollectiveAssumption DEF TypeOK, TypeOKProgram
        <3> QED
            BY <3>1
    <2> QED
        BY <1>2, <2>5, <2>6
<1>6. ASSUME NEW other \in Ranks, Len(Results[other]) >= c PROVE Results[other][c] = array
    <2>1. /\ Len(Results[other]) \in Nat
          /\ \A k \in 1..Len(Results[other]) :
                /\ Results[other][k] \in [Elements("workbuf") -> Seq(Contributions)]
                /\ \A block \in Ranks : \A e \in BlockElements(block) :
                      Results[other][k][e] = Final(block, k)
        BY <1>1, ReturnedArrays, Zenon
    <2>2. c \in 1..Len(Results[other])
        <3>1. Len(Results[r]) \in Nat
            BY <1>1, ReturnedArrays, Zenon
        <3> QED
            BY <1>2, <1>6, <2>1, <3>1
    <2>3. /\ Results[other][c] \in [Elements("workbuf") -> Seq(Contributions)]
          /\ \A block \in Ranks : \A e \in BlockElements(block) :
                Results[other][c][e] = Final(block, c)
        BY <2>1, <2>2, Zenon
    <2>4. \A block \in Ranks : \A e \in BlockElements(block) :
             Results[other][c][e] = Final(block, c) /\ array[e] = Final(block, c)
        BY <1>2, <2>3, Zenon
    <2> QED
        BY <1>2, <2>3, <2>4, SameArrays, Zenon
<1>7. DOMAIN array = Elements("workbuf")
    BY <1>2
<1>8. Abstract!Outcome(array, c)
    BY <1>4, <1>6, <1>7 DEF Abstract!Outcome, Results, Arrays
<1>9. ~Abstract!Idle(r)
    <2>1. c - 1 # c
        BY <1>2
    <2>2. Len(Results[r]) # calls[r]
        BY <1>2, <2>1
    <2> QED
        BY <2>2 DEF Abstract!Idle, Results, Arrays
<1> QED
    BY <1>2, <1>3, <1>5, <1>8, <1>9 DEF Abstract!Return, Results, Arrays

\* The other steps are unseen by the callers.
LEMMA RunReduces ==
    ASSUME Healthy, GroupInv, HealthyInv', TypeInv', NEW r \in Ranks, RunRank(r)
    PROVE  \/ Abstract!Enter(r) \/ Abstract!Return(r)
           \/ calls' = calls /\ Results' = Results
<1>1. HealthyInv /\ AlignedInv /\ TypeInv /\ Flawless(r)' /\ ContinueAfterError = FALSE
    BY HealthyFacts DEF GroupInv, HealthyInv, HealthyAt, Healthy
<1>2. ProgramOthers(r) /\ Course(r)
    BY <1>1, RunOthers, RunCourse
<1>3. CASE Begins(r)
    BY <1>1, <1>2, <1>3, BeginsEnters
<1>4. CASE Succeeds(r)
    BY <1>2, <1>4, SucceedsReturns
<1>5. CASE Failing(r)
    <2>1. PICK S : returned[r] \in Seq(S)
        BY <1>1 DEF TypeInv, TypeOK, TypeOKProgram
    <2>2. PICK status, array :
            /\ status # PG_SUCCESS
            /\ returned'[r] = Append(returned[r], [status |-> status, recvbuf |-> array])
        BY <1>5 DEF Failing
    <2>3. PICK n \in Nat : n = Len(returned[r])
        BY <2>1
    <2>4. Len(returned'[r]) = n + 1 /\ returned'[r][n + 1].status = status
        BY <2>1, <2>2, <2>3
    <2>5. n + 1 \in 1..(n + 1)
        BY <2>3
    <2> QED
        BY <1>1, <2>2, <2>4, <2>5 DEF Flawless
<1>6. CASE calls'[r] = calls[r] /\ returned'[r] = returned[r]
    <2>1. /\ calls \in [Ranks -> 0..Len(Calls)] /\ calls' \in [Ranks -> 0..Len(Calls)]
        BY <1>1 DEF TypeInv, TypeOK, TypeOKProgram
    <2>2. \A q \in Ranks : calls'[q] = calls[q] /\ returned'[q] = returned[q]
        BY <1>2, <1>6 DEF ProgramOthers
    <2> QED
        BY <2>1, <2>2 DEF Results
<1> QED
    BY <1>2, <1>3, <1>4, <1>5, <1>6 DEF Course, Quiet, Reduces, GoesOn

\* To its callers a healthy group is the all-reduce of module AllReduce: no rank
\* returns before every rank has entered, the array returned combines every
\* rank's contribution once, and every rank returns the same array
\* (ring_all_reduce; VerbsRing!ImplementsAllReduce).
THEOREM HealthyIsAllReduce ==
    ASSUME Healthy
    PROVE  Spec => ImplementsAllReduce
<1>1. Init => Abstract!Init
    <2>1. \A c : c \in 1..Len(<<>>) => FALSE
        OBVIOUS
    <2> SUFFICES ASSUME Init PROVE Abstract!Init
        OBVIOUS
    <2>2. calls = [r \in Ranks |-> 0] /\ returned = [r \in Ranks |-> <<>>]
        BY DEF Init, InitProgram
    <2>3. \A r \in Ranks : [c \in 1..Len(returned[r]) |-> returned[r][c].recvbuf] = <<>>
        BY <2>1, <2>2
    <2> QED
        BY <2>2, <2>3 DEF Abstract!Init
<1>2. GroupInv /\ GroupInv' /\ [Next]_vars =>
        [Abstract!Next]_(<<calls, [r \in Ranks |->
                                     [c \in 1..Len(returned[r]) |-> returned[r][c].recvbuf]]>>)
    <2> SUFFICES ASSUME GroupInv, GroupInv', [Next]_vars
                 PROVE  Abstract!Next \/ (calls' = calls /\ Results' = Results)
        BY DEF Results, Arrays
    <2>1. HealthyInv' /\ TypeInv'
        <3>1. TypeInv
            BY HealthyFacts DEF GroupInv
        <3> QED
            BY <3>1, NextTypes DEF GroupInv
    <2>2. ASSUME NEW r \in Ranks, RunRank(r)
          PROVE  Abstract!Next \/ (calls' = calls /\ Results' = Results)
        BY <2>1, <2>2, RunReduces DEF Abstract!Next
    <2>3. ASSUME NEW s \in Ranks, Fabric(s) PROVE calls' = calls /\ Results' = Results
        BY <2>3 DEF Fabric, program_vars, Results
    <2>4. ASSUME UNCHANGED vars PROVE calls' = calls /\ Results' = Results
        BY <2>4 DEF vars, program_vars, Results
    <2> QED
        BY <2>2, <2>3, <2>4 DEF Next, Finished
<1> QED
    BY <1>1, <1>2, InitGroup, NextGroup, PTL DEF Spec, ImplementsAllReduce, Abstract!Spec

=============================================================================
