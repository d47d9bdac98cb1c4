------------------------ MODULE RingBootstrapProofs ------------------------
(* Type correctness and the ownership of resources in RingBootstrap, for     *)
(* every ring, every host list and every set of faulty ranks.                *)
(* After them, the ready barrier: what is in a socket is the part of the     *)
(* neighbour's stream that has not been read, so a rank that has read both   *)
(* ready bytes is between two neighbours whose queue pairs are ready and     *)
(* connected to its own.                                                     *)
(* Last, failing for a reason: without a fault no rank fails, although its   *)
(* neighbours close their sockets when they are done.                        *)
EXTENDS RingBootstrap, SequenceTheorems, TLAPS

-----------------------------------------------------------------------------
(* Types.                                                                    *)

\* The neighbours of a rank are ranks.
LEMMA NeighboursAreRanks ==
    ASSUME NEW r \in Ranks
    PROVE  NextRank(r) \in Ranks /\ PrevRank(r) \in Ranks
  BY BootstrapAssumption DEF Ranks, NextRank, PrevRank

\* A list that names a resource or nothing.
LEMMA OneType ==
    ASSUME NEW set, NEW x \in Resources
    PROVE  One(x, set) \in Seq(Resources)
  BY DEF One

\* The destructor and the two close calls give back resources.
LEMMA DestructorType ==
    ASSUME NEW set
    PROVE  /\ Destructor(set) \in Seq(Resources)
           /\ CloseSockets(set) \in Seq(Resources)
           /\ CloseSockets(set) \o Destructor(set) \in Seq(Resources)
PROOF
<1>1. \A x \in Resources : One(x, set) \in Seq(Resources)
  BY OneType
<1>2. CloseSockets(set) \in Seq(Resources)
  BY <1>1 DEF CloseSockets, Resources, Sockets
<1>3. Destructor(set) \in Seq(Resources)
  <2>1. \A s, t \in Seq(Resources) : s \o t \in Seq(Resources)
    OBVIOUS
  <2> QED
    BY <1>1, <2>1 DEF Destructor, Resources, Sockets, QueuePairs
<1> QED
  BY <1>2, <1>3

\* The part of the type invariant that Goto and Fail change.
ControlTypes ==
    /\ stage   \in [Ranks -> Stages]
    /\ status  \in [Ranks -> Errors \cup {PG_SUCCESS, Pending}]
    /\ freeing \in [Ranks -> Seq(Resources)]

OwnershipTypes ==
    /\ live    \in [Ranks -> SUBSET Resources]
    /\ members \in [Ranks -> SUBSET Resources]

LinkTypes ==
    /\ backlog \in [Ranks -> Ranks \cup {NoRank}]
    /\ peer    \in [Ranks -> [Sockets -> Ranks \cup {NoRank}]]
    /\ inbox   \in [Ranks -> [Sockets -> Seq(Messages)]]
    /\ remote  \in [Ranks -> [Sockets -> Qps \cup {NoQp}]]
    /\ dest    \in [Ranks -> [QueuePairs -> Qps \cup {NoQp}]]

\* The type invariant by its parts.
LEMMA TypeParts ==
    TypeOK <=> ControlTypes /\ OwnershipTypes /\ LinkTypes /\ faults \subseteq Ranks
  BY DEF TypeOK, ControlTypes, OwnershipTypes, LinkTypes

LEMMA GotoTypes ==
    ASSUME ControlTypes, NEW r \in Ranks, NEW next \in Stages, Goto(r, next)
    PROVE  ControlTypes'
  BY DEF ControlTypes, Goto

LEMMA FailTypes ==
    ASSUME ControlTypes, NEW r \in Ranks, NEW error \in Errors,
           NEW cleanup \in Seq(Resources), Fail(r, error, cleanup)
    PROVE  ControlTypes'
  BY DEF ControlTypes, Fail, Stages

LEMMA OwnTypes ==
    ASSUME OwnershipTypes, NEW r \in Ranks, NEW resources \in SUBSET Resources,
           Own(r, resources)
    PROVE  live' \in [Ranks -> SUBSET Resources]
  BY DEF OwnershipTypes, Own

LEMMA DiesTypes ==
    ASSUME ControlTypes, OwnershipTypes, NEW r \in Ranks, Dies(r)
    PROVE  ControlTypes' /\ OwnershipTypes'
<1>1. <<>> \in Seq(Resources)
  OBVIOUS
<1> QED
  BY <1>1 DEF ControlTypes, OwnershipTypes, Dies, Stages

LEMMA LeaveSocketCallTypes ==
    ASSUME ControlTypes, NEW r \in Ranks, NEW first \in BOOLEAN, NEW sockets,
           LeaveSocketCall(r, first, sockets)
    PROVE  ControlTypes'
<1>1. CASE \E next \in Stages : Goto(r, next)
  BY <1>1, GotoTypes
<1>2. CASE Fail(r, PG_ERR_TRANSPORT, CloseSockets(sockets) \o Destructor(members[r]))
  <2>1. CloseSockets(sockets) \o Destructor(members[r]) \in Seq(Resources)
    BY DestructorType
  <2> QED
    BY <1>2, <2>1, FailTypes DEF Errors
<1> QED
  BY <1>1, <1>2 DEF LeaveSocketCall, Stages

\* What is sent over a socket is a message.
LEMMA MessagesTypes ==
    /\ \A r \in Ranks, q \in QueuePairs : ExchangeData(<<r, q>>) \in Messages
    /\ Ready \in Messages /\ Descriptor \in Messages
    /\ \A m \in Messages : m.qp \in Qps \cup {NoQp}
  BY DEF ExchangeData, Ready, Descriptor, Messages, Qps

LEMMA WriteTypes ==
    ASSUME ControlTypes, OwnershipTypes, LinkTypes,
           NEW r \in Ranks, NEW socket \in Sockets, NEW message \in Messages,
           NEW next \in Stages, Write(r, socket, message, next)
    PROVE  /\ ControlTypes' /\ OwnershipTypes'
           /\ inbox' \in [Ranks -> [Sockets -> Seq(Messages)]]
<1>1. ControlTypes' /\ OwnershipTypes'
  <2>1. CASE Goto(r, next) /\ UNCHANGED <<live, members>>
    BY <2>1, GotoTypes DEF OwnershipTypes
  <2>2. CASE /\ Fail(r, PG_ERR_TRANSPORT, CloseSockets(Sockets) \o Destructor(members[r]))
             /\ UNCHANGED <<live, members>>
    <3>1. CloseSockets(Sockets) \in Seq(Resources)
      BY DestructorType
    <3>2. Destructor(members[r]) \in Seq(Resources)
      BY DestructorType
    <3>3. CloseSockets(Sockets) \o Destructor(members[r]) \in Seq(Resources)
      BY <3>1, <3>2
    <3> QED
      BY <2>2, <3>3, FailTypes DEF OwnershipTypes, Errors
  <2>3. CASE Dies(r)
    BY <2>3, DiesTypes
  <2> QED
    BY <2>1, <2>2, <2>3 DEF Write
<1>2. inbox' \in [Ranks -> [Sockets -> Seq(Messages)]]
  <2>1. CASE UNCHANGED inbox
    BY <2>1 DEF LinkTypes
  <2>2. CASE inbox' = [inbox EXCEPT ![peer[r][socket]][Other(socket)] = Append(@, message)]
    <3>1. \A s \in Seq(Messages) : Append(s, message) \in Seq(Messages)
      OBVIOUS
    <3> QED
      BY <2>2, <3>1, ZenonT(30) DEF LinkTypes, Other, Sockets
  <2> QED
    BY <2>1, <2>2 DEF Write
<1> QED
  BY <1>1, <1>2

\* The two ways a read ends.
LEMMA TakeMessageTypes ==
    ASSUME LinkTypes, NEW r \in Ranks, NEW socket \in Sockets, TakeMessage(r, socket)
    PROVE  /\ inbox' \in [Ranks -> [Sockets -> Seq(Messages)]]
           /\ Head(inbox[r][socket]) \in Messages
<1>1. inbox[r][socket] \in Seq(Messages) /\ inbox[r][socket] # <<>>
  BY DEF TakeMessage, LinkTypes
<1>2. Tail(inbox[r][socket]) \in Seq(Messages) /\ Head(inbox[r][socket]) \in Messages
  BY <1>1
<1> QED
  BY <1>2 DEF TakeMessage, LinkTypes

LEMMA CloseAllFails ==
    ASSUME ControlTypes, NEW r \in Ranks,
           Fail(r, PG_ERR_TRANSPORT, CloseSockets(Sockets) \o Destructor(members[r]))
    PROVE  ControlTypes'
<1>1. CloseSockets(Sockets) \in Seq(Resources)
  BY DestructorType
<1>2. Destructor(members[r]) \in Seq(Resources)
  BY DestructorType
<1>3. CloseSockets(Sockets) \o Destructor(members[r]) \in Seq(Resources)
  BY <1>1, <1>2
<1> QED
  BY <1>3, FailTypes DEF Errors

\* One step of a rank up to the creation of its queue pairs.
LEMMA DeviceStepTypes ==
    ASSUME ControlTypes, OwnershipTypes, NEW r \in Ranks,
           \/ CheckArguments(r) \/ GetDeviceList(r) \/ OpenDevice(r) \/ AllocPd(r) \/ QueryPort(r)
           \/ CreateTransport(r) \/ CreateQps(r)
    PROVE  ControlTypes' /\ OwnershipTypes'
<1>1. \A x \in Resources : One(x, {x}) = <<x>>
  BY DEF One
<1>2. /\ <<>> \in Seq(Resources) /\ <<"context">> \in Seq(Resources)
      /\ <<"pd", "context">> \in Seq(Resources) /\ <<"device_list">> \in Seq(Resources)
  BY DEF Resources, Lists
<1>3. /\ {"context"} \subseteq Resources /\ {"pd"} \subseteq Resources
      /\ {"cq"} \subseteq Resources /\ QueuePairs \subseteq Resources
      /\ {"context", "pd", "cq"} \subseteq Resources
      /\ {"device_list"} \subseteq Resources /\ {"empty_list"} \subseteq Resources
  BY DEF Resources, Lists
<1>4. Errors = {PG_ERR_INVALID_ARGUMENT, PG_ERR_TRANSPORT, PG_ERR_NO_MEMORY}
  BY DEF Errors
<1>5. /\ "device" \in Stages /\ "open" \in Stages /\ "pd" \in Stages /\ "port" \in Stages
      /\ "transport" \in Stages /\ "qps" \in Stages
      /\ "connect" \in Stages /\ "listen" \in Stages
  BY DEF Stages
<1>6. CASE CheckArguments(r)
  <2>1. ControlTypes'
    BY <1>2, <1>4, <1>5, <1>6, GotoTypes, FailTypes DEF CheckArguments
  <2> QED
    BY <1>6, <2>1 DEF CheckArguments, OwnershipTypes
<1>12. CASE GetDeviceList(r)
  <2>1. ControlTypes'
    BY <1>2, <1>4, <1>5, <1>12, GotoTypes, FailTypes DEF GetDeviceList
  <2>2. \E list \in {{}, {"device_list"}, {"empty_list"}} : Own(r, list)
    BY <1>12 DEF GetDeviceList
  <2> QED
    BY <1>3, <1>12, <2>1, <2>2, OwnTypes DEF GetDeviceList, OwnershipTypes
<1>7. CASE OpenDevice(r)
  <2>1. ControlTypes'
    BY <1>2, <1>4, <1>5, <1>7, GotoTypes, FailTypes DEF OpenDevice
  <2> QED
    BY <1>3, <1>7, <2>1 DEF OpenDevice, OwnershipTypes
<1>8. CASE AllocPd(r)
  <2>1. ControlTypes'
    BY <1>2, <1>4, <1>5, <1>8, GotoTypes, FailTypes DEF AllocPd
  <2> QED
    BY <1>3, <1>8, <2>1, OwnTypes DEF AllocPd, OwnershipTypes
<1>9. CASE QueryPort(r)
  <2>1. ControlTypes'
    BY <1>2, <1>4, <1>5, <1>9, GotoTypes, FailTypes DEF QueryPort
  <2> QED
    BY <1>9, <2>1 DEF QueryPort, OwnershipTypes
<1>10. CASE CreateTransport(r)
  <2>1. ControlTypes'
    BY <1>2, <1>4, <1>5, <1>10, GotoTypes, FailTypes DEF CreateTransport
  <2> QED
    BY <1>3, <1>10, <2>1, OwnTypes DEF CreateTransport, OwnershipTypes
<1>11. CASE CreateQps(r)
  <2>1. CASE /\ Goto(r, IF ConnectsFirst(r) THEN "connect" ELSE "listen")
             /\ Own(r, QueuePairs)
             /\ members' = [members EXCEPT ![r] = @ \cup QueuePairs]
    <3>1. ControlTypes'
      BY <1>5, <2>1, GotoTypes
    <3> QED
      BY <1>3, <2>1, <3>1, OwnTypes DEF OwnershipTypes
  <2>2. ASSUME NEW created \in {{}, {"qp_next"}, {"qp_prev"}},
               Own(r, created), UNCHANGED members,
               Fail(r, PG_ERR_TRANSPORT, One("qp_next", created) \o
                       One("qp_prev", created) \o Destructor(members[r]))
        PROVE  ControlTypes' /\ OwnershipTypes'
    <3>1. created \subseteq Resources
      BY DEF Resources, QueuePairs
    <3>2. /\ One("qp_next", created) \in Seq(Resources)
          /\ One("qp_prev", created) \in Seq(Resources)
      BY OneType DEF Resources, QueuePairs
    <3>3. Destructor(members[r]) \in Seq(Resources)
      BY DestructorType
    <3>4. One("qp_next", created) \o One("qp_prev", created) \o
              Destructor(members[r]) \in Seq(Resources)
      BY <3>2, <3>3
    <3>5. ControlTypes'
      BY <1>4, <2>2, <3>4, FailTypes
    <3> QED
      BY <2>2, <3>1, <3>5, OwnTypes DEF OwnershipTypes
  <2> QED
    BY <1>11, <2>1, <2>2 DEF CreateQps
<1> QED
  BY <1>6, <1>7, <1>8, <1>9, <1>10, <1>11, <1>12

\* One step of a rank on the TCP ring.
LEMMA RingStepTypes ==
    ASSUME ControlTypes, OwnershipTypes, LinkTypes, faults \subseteq Ranks,
           NEW r \in Ranks, Connect(r) \/ GiveUp(r) \/ Listen(r) \/ Accept(r)
    PROVE  ControlTypes' /\ OwnershipTypes' /\ LinkTypes' /\ faults' \subseteq Ranks
<1>1. "accept" \in Stages /\ Sockets \subseteq Resources
  BY DEF Stages, Resources
<1>2. ConnectsFirst(r) \in BOOLEAN /\ (~ConnectsFirst(r)) \in BOOLEAN
  BY DEF ConnectsFirst
<1>3. ControlTypes'
  <2>1. CASE \E first \in BOOLEAN, sockets \in SUBSET Sockets : LeaveSocketCall(r, first, sockets)
    BY <2>1, LeaveSocketCallTypes
  <2>2. CASE Goto(r, "accept")
    BY <1>1, <2>2, GotoTypes
  <2> QED
    BY <1>2, <2>1, <2>2 DEF Connect, GiveUp, Listen, Accept, Sockets
<1>4. OwnershipTypes'
  <2>1. {"next_socket"} \subseteq Resources /\ {"previous_socket"} \subseteq Resources
    BY DEF Resources, Sockets
  <2> QED
    BY <2>1, OwnTypes DEF OwnershipTypes, Connect, GiveUp, Listen, Accept, links_vars
<1>5. LinkTypes' /\ faults' \subseteq Ranks
  <2>1. CASE Connect(r)
    BY <2>1 DEF Connect, LinkTypes, Sockets
  <2>2. CASE GiveUp(r)
    BY <2>2 DEF GiveUp, LinkTypes, links_vars
  <2>3. CASE Listen(r)
    BY <2>3 DEF Listen, Fault, LinkTypes, links_vars
  <2>4. CASE Accept(r)
    <3>1. backlog' \in [Ranks -> Ranks \cup {NoRank}]
      BY <2>4 DEF Accept, LinkTypes
    <3>2. peer' \in [Ranks -> [Sockets -> Ranks \cup {NoRank}]]
      <4>1. backlog[r] \in Ranks \cup {NoRank}
        BY DEF LinkTypes
      <4>2. \/ peer' = [peer EXCEPT ![r]["previous_socket"] = backlog[r]]
            \/ peer' = peer
        BY <2>4 DEF Accept
      <4>3. peer \in [Ranks -> [Sockets -> Ranks \cup {NoRank}]]
        BY DEF LinkTypes
      <4> HIDE DEF LinkTypes, Sockets
      <4>4. CASE peer' = [peer EXCEPT ![r]["previous_socket"] = backlog[r]]
        <5> DEFINE ends == [peer[r] EXCEPT !["previous_socket"] = backlog[r]]
        <5>1. ends \in [Sockets -> Ranks \cup {NoRank}]
          BY <4>1, <4>3
        <5>2. peer' = [peer EXCEPT ![r] = ends]
          BY <4>4
        <5> HIDE DEF ends
        <5> QED
          BY <4>3, <5>1, <5>2
      <4> QED
        BY <4>2, <4>3, <4>4
    <3>3. UNCHANGED <<inbox, remote, dest>> /\ faults' \subseteq Ranks
      BY <2>4 DEF Accept, Fault
    <3> QED
      BY <3>1, <3>2, <3>3 DEF LinkTypes
  <2> QED
    BY <2>1, <2>2, <2>3, <2>4
<1> QED
  BY <1>3, <1>4, <1>5

\* One step of a rank in the exchange and the barrier.
LEMMA ExchangeStepTypes ==
    ASSUME ControlTypes, OwnershipTypes, LinkTypes, faults \subseteq Ranks,
           NEW r \in Ranks,
           \/ WriteRecord(r) \/ ReadRecord(r) \/ TransitionToRts(r)
           \/ WriteReady(r) \/ ReadReady(r) \/ Announce(r)
    PROVE  ControlTypes' /\ OwnershipTypes' /\ LinkTypes' /\ faults' \subseteq Ranks
<1>1. /\ "writePrevious" \in Stages /\ "readNext" \in Stages
      /\ "readPrevious" \in Stages /\ "transition" \in Stages
      /\ "readyNext" \in Stages /\ "readyPrevious" \in Stages
      /\ "awaitNext" \in Stages /\ "awaitPrevious" \in Stages
      /\ "configure" \in Stages /\ "running" \in Stages
  BY DEF Stages
<1>2. /\ "next_socket" \in Sockets /\ "previous_socket" \in Sockets
      /\ "qp_next" \in QueuePairs /\ "qp_prev" \in QueuePairs
      /\ Sockets \subseteq Resources
  BY DEF Sockets, QueuePairs, Resources
<1>3. CASE WriteRecord(r)
  <2>1. \E socket \in Sockets, message \in Messages, next \in Stages :
            Write(r, socket, message, next)
    BY <1>1, <1>2, <1>3, MessagesTypes DEF WriteRecord
  <2> QED
    BY <1>3, <2>1, WriteTypes DEF WriteRecord, LinkTypes
<1>4. CASE WriteReady(r)
  <2>1. \E socket \in Sockets, message \in Messages, next \in Stages :
            Write(r, socket, message, next)
    BY <1>1, <1>2, <1>4, MessagesTypes DEF WriteReady
  <2> QED
    BY <1>4, <2>1, WriteTypes DEF WriteReady, LinkTypes
<1>5. CASE ReadRecord(r)
  <2>1. PICK socket \in Sockets :
            /\ \/ /\ TakeMessage(r, socket)
                  /\ remote' = [remote EXCEPT ![r][socket] = Head(inbox[r][socket]).qp]
                  /\ Goto(r, IF socket = "next_socket" THEN "readPrevious" ELSE "transition")
               \/ ReadFails(r, socket)
            /\ UNCHANGED <<live, members, backlog, peer, dest, faults>>
    BY <1>5 DEF ReadRecord
  <2>2. CASE /\ TakeMessage(r, socket)
             /\ remote' = [remote EXCEPT ![r][socket] = Head(inbox[r][socket]).qp]
             /\ Goto(r, IF socket = "next_socket" THEN "readPrevious" ELSE "transition")
    <3>1. ControlTypes'
      BY <1>1, <2>2, GotoTypes
    <3>2. /\ inbox' \in [Ranks -> [Sockets -> Seq(Messages)]]
          /\ Head(inbox[r][socket]) \in Messages
      BY <2>2, TakeMessageTypes
    <3>3. Head(inbox[r][socket]).qp \in Qps \cup {NoQp}
      BY <3>2, MessagesTypes
    <3>4. remote' \in [Ranks -> [Sockets -> Qps \cup {NoQp}]]
      BY <2>2, <3>3 DEF LinkTypes
    <3> QED
      BY <2>1, <3>1, <3>2, <3>4 DEF OwnershipTypes, LinkTypes
  <2>3. CASE ReadFails(r, socket)
    <3>1. ControlTypes'
      BY <2>3, CloseAllFails DEF ReadFails
    <3> QED
      BY <2>1, <2>3, <3>1 DEF ReadFails, OwnershipTypes, LinkTypes
  <2> QED
    BY <2>1, <2>2, <2>3
<1>6. CASE ReadReady(r)
  <2>1. PICK socket \in Sockets :
            /\ \/ /\ TakeMessage(r, socket)
                  /\ IF Head(inbox[r][socket]) # Ready
                     THEN /\ Fail(r, PG_ERR_TRANSPORT,
                                  CloseSockets(Sockets) \o Destructor(members[r]))
                          /\ UNCHANGED members
                     ELSE IF socket = "next_socket"
                     THEN Goto(r, "awaitPrevious") /\ UNCHANGED members
                     ELSE /\ Goto(r, "configure")
                          /\ members' = [members EXCEPT ![r] = @ \cup Sockets]
                  /\ UNCHANGED remote
               \/ ReadFails(r, socket) /\ UNCHANGED members
            /\ UNCHANGED <<live, backlog, peer, dest, faults>>
    BY <1>6 DEF ReadReady
  <2>2. ControlTypes'
    BY <1>1, <2>1, GotoTypes, CloseAllFails DEF ReadFails
  <2>3. members' \in [Ranks -> SUBSET Resources]
    BY <1>2, <2>1 DEF OwnershipTypes
  <2>4. inbox' \in [Ranks -> [Sockets -> Seq(Messages)]]
    <3>1. TakeMessage(r, socket) \/ UNCHANGED inbox
      BY <2>1 DEF ReadFails
    <3> QED
      BY <3>1, TakeMessageTypes DEF LinkTypes
  <2>5. UNCHANGED remote
    BY <2>1 DEF ReadFails
  <2> QED
    BY <2>1, <2>2, <2>3, <2>4, <2>5 DEF OwnershipTypes, LinkTypes
<1>7. CASE TransitionToRts(r)
  <2>1. ControlTypes'
    BY <1>1, <1>7, GotoTypes, CloseAllFails DEF TransitionToRts
  <2>2. /\ remote[r].next_socket \in Qps \cup {NoQp}
        /\ remote[r].previous_socket \in Qps \cup {NoQp}
    BY <1>2 DEF LinkTypes
  <2>3. dest' \in [Ranks -> [QueuePairs -> Qps \cup {NoQp}]]
    <3>1. CASE dest' = dest
      BY <3>1 DEF LinkTypes
    <3>2. CASE dest' = [dest EXCEPT ![r] = [qp_next |-> remote[r].next_socket,
                                           qp_prev |-> remote[r].previous_socket]]
      <4>1. [qp_next |-> remote[r].next_socket, qp_prev |-> remote[r].previous_socket]
                \in [QueuePairs -> Qps \cup {NoQp}]
        BY <2>2 DEF QueuePairs
      <4> QED
        BY <3>2, <4>1 DEF LinkTypes
    <3>3. CASE dest' = [dest EXCEPT ![r].qp_next = remote[r].next_socket]
      BY <2>2, <3>3 DEF LinkTypes, QueuePairs
    <3> QED
      BY <1>7, <3>1, <3>2, <3>3 DEF TransitionToRts
  <2> QED
    BY <1>7, <2>1, <2>3 DEF TransitionToRts, Fault, OwnershipTypes, LinkTypes
<1>8. CASE Announce(r)
  <2>1. ControlTypes' /\ OwnershipTypes'
    BY <1>1, <1>8, GotoTypes, DiesTypes DEF Announce, OwnershipTypes
  <2>2. inbox' \in [Ranks -> [Sockets -> Seq(Messages)]]
    <3>1. \A s \in Seq(Messages) : Append(s, Descriptor) \in Seq(Messages)
      BY MessagesTypes
    <3>2. \/ inbox' = [inbox EXCEPT ![peer[r].previous_socket].next_socket =
                                       Append(@, Descriptor)]
          \/ inbox' = inbox
      BY <1>8 DEF Announce
    <3>3. inbox \in [Ranks -> [Sockets -> Seq(Messages)]]
      BY DEF LinkTypes
    <3> DEFINE p == peer[r].previous_socket
               ends == [inbox[p] EXCEPT !["next_socket"] = Append(inbox[p].next_socket, Descriptor)]
    <3>4. inbox' = [inbox EXCEPT ![p] = ends] \/ inbox' = inbox
      BY <3>2
    <3>5. ASSUME p \in Ranks PROVE ends \in [Sockets -> Seq(Messages)]
      BY <3>1, <3>3, <3>5 DEF Sockets
    <3> HIDE DEF p, ends
    <3> QED
      BY <3>3, <3>4, <3>5
  <2> QED
    BY <1>8, <2>1, <2>2 DEF Announce, LinkTypes
<1> QED
  BY <1>3, <1>4, <1>5, <1>6, <1>7, <1>8

LEMMA InitTypes == Init => TypeOK
<1> SUFFICES ASSUME Init PROVE TypeOK
  OBVIOUS
<1>1. <<>> \in Seq(Resources) /\ <<>> \in Seq(Messages)
  OBVIOUS
<1>2. ControlTypes
  BY <1>1 DEF Init, ControlTypes, Stages
<1>3. OwnershipTypes
  BY DEF Init, OwnershipTypes
<1>4. LinkTypes
  BY <1>1 DEF Init, LinkTypes
<1> QED
  BY <1>2, <1>3, <1>4, TypeParts DEF Init

LEMMA NextTypes == TypeOK /\ [Next]_vars => TypeOK'
<1> SUFFICES ASSUME TypeOK, [Next]_vars PROVE TypeOK'
  OBVIOUS
<1>1. ControlTypes /\ OwnershipTypes /\ LinkTypes /\ faults \subseteq Ranks
  BY TypeParts
<1>2. SUFFICES ControlTypes' /\ OwnershipTypes' /\ LinkTypes' /\ faults' \subseteq Ranks
  BY DEF TypeOK, ControlTypes, OwnershipTypes, LinkTypes
<1>3. CASE UNCHANGED vars
  BY <1>1, <1>3 DEF vars, ControlTypes, OwnershipTypes, LinkTypes
<1>4. ASSUME NEW r \in Ranks, Run(r) \/ GiveUp(r) \/ Announce(r) \/ Close(r) \/ Crash(r)
      PROVE  ControlTypes' /\ OwnershipTypes' /\ LinkTypes' /\ faults' \subseteq Ranks
  <2>1. CASE \/ CheckArguments(r) \/ GetDeviceList(r) \/ OpenDevice(r) \/ AllocPd(r) \/ QueryPort(r)
             \/ CreateTransport(r) \/ CreateQps(r)
    <3>1. ControlTypes' /\ OwnershipTypes'
      BY <1>1, <2>1, DeviceStepTypes
    <3>2. UNCHANGED links_vars /\ faults' \in {faults, faults \cup {r}}
      BY <2>1 DEF CheckArguments, GetDeviceList, OpenDevice, AllocPd, QueryPort, CreateTransport,
                  CreateQps, Fault
    <3> QED
      BY <1>1, <3>1, <3>2 DEF LinkTypes, links_vars
  <2>2. CASE Connect(r) \/ GiveUp(r) \/ Listen(r) \/ Accept(r)
    BY <1>1, <2>2, RingStepTypes
  <2>3. CASE \/ WriteRecord(r) \/ ReadRecord(r) \/ TransitionToRts(r)
             \/ WriteReady(r) \/ ReadReady(r) \/ Announce(r)
    BY <1>1, <2>3, ExchangeStepTypes
  <2>4. CASE Configure(r)
    <3>1. Destructor(members[r]) \in Seq(Resources) /\ "create" \in Stages
      BY DestructorType DEF Stages
    <3>2. ControlTypes'
      BY <1>1, <2>4, <3>1, GotoTypes, FailTypes DEF Configure, Errors
    <3> QED
      BY <1>1, <2>4, <3>2 DEF Configure, Fault, OwnershipTypes, LinkTypes, links_vars
  <2>5. CASE CreateHandle(r)
    <3>1. CASE /\ stage'  = [stage EXCEPT ![r] = "connected"]
               /\ status' = [status EXCEPT ![r] = PG_SUCCESS]
               /\ Own(r, {"handle", "collectives"})
               /\ UNCHANGED <<freeing, faults>>
      <4>1. ControlTypes'
        BY <1>1, <3>1 DEF ControlTypes, Stages
      <4>2. {"handle", "collectives"} \in SUBSET Resources
        BY DEF Resources
      <4>3. OwnershipTypes'
        BY <1>1, <2>5, <3>1, <4>2, OwnTypes DEF CreateHandle, OwnershipTypes
      <4> QED
        BY <1>1, <2>5, <3>1, <4>1, <4>3 DEF CreateHandle, LinkTypes, links_vars
    <3>2. ASSUME NEW created \in {{}, {"handle"}}, Fault(r), Own(r, created),
                 Fail(r, PG_ERR_NO_MEMORY, One("handle", created) \o Destructor(members[r]))
          PROVE  ControlTypes' /\ OwnershipTypes' /\ LinkTypes' /\ faults' \subseteq Ranks
      <4>1. One("handle", created) \in Seq(Resources)
        BY OneType DEF Resources
      <4>2. Destructor(members[r]) \in Seq(Resources)
        BY DestructorType
      <4>3. One("handle", created) \o Destructor(members[r]) \in Seq(Resources)
        BY <4>1, <4>2
      <4>4. ControlTypes'
        BY <1>1, <3>2, <4>3, FailTypes DEF Errors
      <4>5. created \in SUBSET Resources
        BY DEF Resources
      <4>6. OwnershipTypes'
        BY <1>1, <2>5, <3>2, <4>5, OwnTypes DEF CreateHandle, OwnershipTypes
      <4> QED
        BY <1>1, <2>5, <3>2, <4>4, <4>6 DEF CreateHandle, Fault, LinkTypes, links_vars
    <3> QED
      BY <2>5, <3>1, <3>2 DEF CreateHandle
  <2>6. CASE Free(r)
    <3>1. freeing[r] \in Seq(Resources) /\ freeing[r] # <<>>
      BY <1>1, <2>6 DEF Free, ControlTypes
    <3>2. Tail(freeing[r]) \in Seq(Resources)
      BY <3>1
    <3>3. ControlTypes'
      BY <1>1, <2>6, <3>2 DEF Free, ControlTypes
    <3>4. OwnershipTypes'
      BY <1>1, <2>6 DEF Free, OwnershipTypes
    <3> QED
      BY <1>1, <2>6, <3>3, <3>4 DEF Free, LinkTypes, links_vars
  <2>7. CASE Return(r)
    <3>1. "closed" \in Stages /\ "returned" \in Stages
      BY DEF Stages
    <3>2. ControlTypes'
      BY <1>1, <2>7, <3>1, GotoTypes DEF Return
    <3> QED
      BY <1>1, <2>7, <3>2 DEF Return, OwnershipTypes, LinkTypes, links_vars
  <2>8. CASE Close(r)
    <3>1. Destructor(members[r]) \in Seq(Resources)
      BY DestructorType
    <3>2. <<"collectives">> \in Seq(Resources) /\ <<"handle">> \in Seq(Resources)
      BY DEF Resources
    <3>3. <<"collectives">> \o Destructor(members[r]) \o <<"handle">> \in Seq(Resources)
      BY <3>1, <3>2
    <3>4. ControlTypes'
      BY <1>1, <2>8, <3>3 DEF Close, ControlTypes, Stages
    <3> QED
      BY <1>1, <2>8, <3>4 DEF Close, OwnershipTypes, LinkTypes, links_vars
  <2>9. CASE Crash(r)
    BY <1>1, <2>9, DiesTypes DEF Crash, Fault, LinkTypes, links_vars
  <2> QED
    BY <1>4, <2>1, <2>2, <2>3, <2>4, <2>5, <2>6, <2>7, <2>8, <2>9 DEF Run
<1> QED
  BY <1>3, <1>4 DEF Next

\* Every variable keeps its type: a list of resources to give back names
\* resources, and what waits in a socket is a message of the protocol.
THEOREM BootstrapTypeCorrect == Spec => []TypeOK
BY InitTypes, NextTypes, PTL DEF Spec

-----------------------------------------------------------------------------
(* Ownership.  What a rank has depends on its stage alone, except for the    *)
(* sockets while it connects and accepts; while it gives things back, the    *)
(* list names exactly what is left, users before what they use - except for  *)
(* the empty list of devices, which is on no list.                           *)

Device == {"context", "pd", "cq"} \cup QueuePairs

\* The list gives back the set, nothing twice and nothing before its users.
Frees(list, set) ==
    /\ list \in Seq(Resources)
    /\ \A x : x \in set <=> \E i \in 1..Len(list) : list[i] = x
    /\ \A i, j \in 1..Len(list) :
          i < j => list[j] # list[i] /\ list[j] \notin Users(list[i])

Before == {"arguments", "device", "open", "pd", "port", "transport", "qps"}
Meeting == {"connect", "listen", "accept"}
Exchanging == {"writeNext", "writePrevious", "readNext", "readPrevious",
               "transition", "readyNext", "readyPrevious", "awaitNext", "awaitPrevious"}
Finishing == {"configure", "create"}
InUse == {"connected", "running"}
Gone == {"returned", "closed", "dead"}

\* What a rank has obtained before its queue pairs exist.
Obtained(at) ==
    CASE at \in {"arguments", "device"} -> {}
      [] at = "open"                    -> {"device_list"}
      [] at = "pd"                      -> {"context"}
      [] at \in {"port", "transport"}   -> {"context", "pd"}
      [] OTHER                          -> {"context", "pd", "cq"}

\* A call that found no device fails with the empty list kept.
NoDevice(what, has, list) == what # PG_SUCCESS /\ has = {"empty_list"} /\ list = <<>>

Owned(at, what, has, gave, list) ==
    /\ at \in Before =>
          /\ has = Obtained(at)
          /\ gave = IF at = "qps" THEN {"context", "pd", "cq"} ELSE {}
    /\ at \in Meeting =>
          /\ Device \subseteq has /\ has \subseteq Device \cup Sockets
          /\ gave = Device
    /\ at \in Exchanging => has = Device \cup Sockets /\ gave = Device
    /\ at \in Finishing  => has = Device \cup Sockets /\ gave = Device \cup Sockets
    /\ at \in InUse      => has = Resources \ Lists /\ gave = Device \cup Sockets
    /\ at = "freeing"    => Frees(list, has) \/ NoDevice(what, has, list)
    /\ at # "freeing"    => list = <<>>
    /\ at \in Gone       => has = {} \/ (at = "returned" /\ has = {"empty_list"})

OwnedAt(r) == Owned(stage[r], status[r], live[r], members[r], freeing[r])

OwnershipInv == \A r \in Ranks : OwnedAt(r)

LEMMA FreesEmpty == Frees(<<>>, {})
BY DEF Frees

LEMMA FreesSingle ==
    ASSUME NEW x \in Resources
    PROVE  Frees(<<x>>, {x})
BY DEF Frees

LEMMA FreesOne ==
    ASSUME NEW x \in Resources, NEW set
    PROVE  Frees(One(x, set), set \cap {x})
<1>1. CASE x \in set
  <2>1. set \cap {x} = {x} /\ One(x, set) = <<x>>
    BY <1>1 DEF One
  <2> QED
    BY <2>1, FreesSingle
<1>2. CASE x \notin set
  <2>1. set \cap {x} = {} /\ One(x, set) = <<>>
    BY <1>2 DEF One
  <2> QED
    BY <2>1, FreesEmpty
<1> QED
  BY <1>1, <1>2

\* Two lists one after the other, the second with no user of the first.
LEMMA FreesBoth ==
    ASSUME NEW s, NEW S, NEW t, NEW T, Frees(s, S), Frees(t, T),
           S \cap T = {}, \A x \in S : Users(x) \cap T = {}
    PROVE  Frees(s \o t, S \cup T)
<1>1. s \in Seq(Resources) /\ t \in Seq(Resources)
  BY DEF Frees
<1>2. /\ s \o t \in Seq(Resources)
      /\ Len(s \o t) = Len(s) + Len(t)
      /\ Len(s) \in Nat /\ Len(t) \in Nat
      /\ \A i \in 1..Len(s) : (s \o t)[i] = s[i]
      /\ \A i \in 1..(Len(s) + Len(t)) : i > Len(s) => (s \o t)[i] = t[i - Len(s)]
  BY <1>1
<1> DEFINE u == s \o t
           m == Len(s)
           n == Len(t)
<1>3. /\ \A i \in 1..m : u[i] = s[i] /\ s[i] \in S
      /\ \A i \in 1..(m + n) : i > m => i - m \in 1..n /\ u[i] = t[i - m] /\ t[i - m] \in T
  BY <1>2 DEF Frees
<1>4. \A x : x \in S \cup T <=> \E i \in 1..(m + n) : u[i] = x
  <2>1. ASSUME NEW x \in S PROVE \E i \in 1..(m + n) : u[i] = x
    <3>1. PICK i \in 1..m : s[i] = x
      BY DEF Frees
    <3>2. i \in 1..(m + n) /\ u[i] = x
      BY <1>2, <1>3, <3>1
    <3> QED
      BY <3>2
  <2>2. ASSUME NEW x \in T PROVE \E i \in 1..(m + n) : u[i] = x
    <3>1. PICK i \in 1..n : t[i] = x
      BY DEF Frees
    <3>2. m + i \in 1..(m + n) /\ m + i > m /\ (m + i) - m = i
      BY <1>2, <3>1
    <3>3. u[m + i] = t[i]
      BY <1>3, <3>2
    <3> QED
      BY <3>1, <3>2, <3>3
  <2>3. ASSUME NEW i \in 1..(m + n) PROVE u[i] \in S \cup T
    BY <1>2, <1>3
  <2> QED
    BY <2>1, <2>2, <2>3
<1>5. ASSUME NEW i \in 1..(m + n), NEW j \in 1..(m + n), i < j
      PROVE  u[j] # u[i] /\ u[j] \notin Users(u[i])
  <2>1. CASE j <= m
    <3>1. i \in 1..m /\ j \in 1..m
      BY <1>2, <1>5, <2>1
    <3> QED
      BY <1>3, <1>5, <3>1 DEF Frees
  <2>2. CASE i <= m /\ j > m
    <3>1. u[i] \in S /\ u[j] \in T
      BY <1>2, <1>3, <2>2
    <3> QED
      BY <3>1
  <2>3. CASE i > m
    <3>1. /\ i - m \in 1..n /\ j - m \in 1..n /\ i - m < j - m
          /\ u[i] = t[i - m] /\ u[j] = t[j - m]
      BY <1>2, <1>3, <1>5, <2>3
    <3> QED
      BY <3>1 DEF Frees
  <2> QED
    BY <1>2, <2>1, <2>2, <2>3
<1> QED
  BY <1>2, <1>4, <1>5 DEF Frees

LEMMA FreesTail ==
    ASSUME NEW s, NEW S, Frees(s, S), s # <<>>
    PROVE  /\ Head(s) \in S
           /\ Users(Head(s)) \cap S = {}
           /\ Frees(Tail(s), S \ {Head(s)})
<1>1. s \in Seq(Resources)
  BY DEF Frees
<1>2. /\ Len(s) \in Nat /\ Len(s) >= 1 /\ Head(s) = s[1]
      /\ Tail(s) \in Seq(Resources) /\ Len(Tail(s)) = Len(s) - 1
      /\ \A i \in 1..(Len(s) - 1) : Tail(s)[i] = s[i + 1]
  BY <1>1
<1>3. s[1] \in S
  BY <1>2 DEF Frees
<1>4. \A x \in S \ {s[1]} : x \notin Users(s[1])
  BY <1>2 DEF Frees
<1>5. s[1] \notin Users(s[1])
  BY <1>1, <1>2 DEF Users, Sockets, QueuePairs
<1>6. \A x : x \in S \ {s[1]} <=> \E i \in 1..(Len(s) - 1) : Tail(s)[i] = x
  <2>1. ASSUME NEW x \in S \ {s[1]} PROVE \E i \in 1..(Len(s) - 1) : Tail(s)[i] = x
    <3>1. PICK i \in 1..Len(s) : s[i] = x
      BY DEF Frees
    <3>2. i - 1 \in 1..(Len(s) - 1) /\ (i - 1) + 1 = i
      BY <1>2, <3>1
    <3> QED
      BY <1>2, <3>1, <3>2
  <2>2. ASSUME NEW i \in 1..(Len(s) - 1) PROVE Tail(s)[i] \in S \ {s[1]}
    <3>1. i + 1 \in 1..Len(s) /\ 1 \in 1..Len(s) /\ 1 < i + 1
      BY <1>2
    <3>2. s[i + 1] \in S /\ s[i + 1] # s[1]
      BY <3>1 DEF Frees
    <3> QED
      BY <1>2, <3>2
  <2> QED
    BY <2>1, <2>2
<1>7. ASSUME NEW i \in 1..(Len(s) - 1), NEW j \in 1..(Len(s) - 1), i < j
      PROVE  Tail(s)[j] # Tail(s)[i] /\ Tail(s)[j] \notin Users(Tail(s)[i])
  <2>1. i + 1 \in 1..Len(s) /\ j + 1 \in 1..Len(s) /\ i + 1 < j + 1
    BY <1>2, <1>7
  <2>2. s[j + 1] # s[i + 1] /\ s[j + 1] \notin Users(s[i + 1])
    BY <2>1 DEF Frees
  <2> QED
    BY <1>2, <2>2
<1> QED
  BY <1>2, <1>3, <1>4, <1>5, <1>6, <1>7 DEF Frees

\* A resource is given back after a whole list, none of which it uses.
LEMMA FreesThen ==
    ASSUME NEW s, NEW S, Frees(s, S), NEW x \in Resources, NEW set,
           x \notin S, \A y \in S : x \notin Users(y)
    PROVE  Frees(s \o One(x, set), S \cup (set \cap {x}))
<1>1. Frees(One(x, set), set \cap {x})
  BY FreesOne
<1>2. S \cap (set \cap {x}) = {} /\ \A y \in S : Users(y) \cap (set \cap {x}) = {}
  OBVIOUS
<1> QED
  BY <1>1, <1>2, FreesBoth

LEMMA CloseSocketsFrees ==
    ASSUME NEW set
    PROVE  Frees(CloseSockets(set), set \cap Sockets)
<1>1. "next_socket" \in Resources /\ "previous_socket" \in Resources
  BY DEF Resources, Sockets
<1>2. Frees(One("next_socket", set), set \cap {"next_socket"})
  BY <1>1, FreesOne
<1>3. Frees(CloseSockets(set), (set \cap {"next_socket"}) \cup (set \cap {"previous_socket"}))
  BY <1>1, <1>2, FreesThen DEF CloseSockets, Users, Sockets
<1>4. (set \cap {"next_socket"}) \cup (set \cap {"previous_socket"}) = set \cap Sockets
  BY DEF Sockets
<1> QED
  BY <1>3, <1>4

\* ~VerbsTransport gives back its members, users before what they use.
LEMMA DestructorFrees ==
    ASSUME NEW set \in SUBSET (Device \cup Sockets)
    PROVE  Frees(Destructor(set), set)
<1> DEFINE s2 == CloseSockets(set)
           s3 == s2 \o One("qp_next", set)
           s4 == s3 \o One("qp_prev", set)
           s5 == s4 \o One("cq", set)
           s6 == s5 \o One("pd", set)
           S2 == set \cap Sockets
           S3 == S2 \cup (set \cap {"qp_next"})
           S4 == S3 \cup (set \cap {"qp_prev"})
           S5 == S4 \cup (set \cap {"cq"})
           S6 == S5 \cup (set \cap {"pd"})
<1>1. Destructor(set) = s6 \o One("context", set)
  BY DEF Destructor, CloseSockets
<1>2. /\ "qp_next" \in Resources /\ "qp_prev" \in Resources /\ "cq" \in Resources
      /\ "pd" \in Resources /\ "context" \in Resources
  BY DEF Resources, QueuePairs
<1>3. Frees(s2, S2)
  BY CloseSocketsFrees
<1>4. Frees(s3, S3)
  <2>1. "qp_next" \notin S2 /\ \A y \in S2 : "qp_next" \notin Users(y)
    BY DEF Users, Sockets, QueuePairs
  <2> HIDE DEF s2, S2
  <2> QED
    BY <1>2, <1>3, <2>1, FreesThen
<1>5. Frees(s4, S4)
  <2>1. "qp_prev" \notin S3 /\ \A y \in S3 : "qp_prev" \notin Users(y)
    BY DEF Users, Sockets, QueuePairs
  <2> HIDE DEF s3, S3
  <2> QED
    BY <1>2, <1>4, <2>1, FreesThen
<1>6. Frees(s5, S5)
  <2>1. "cq" \notin S4 /\ \A y \in S4 : "cq" \notin Users(y)
    BY DEF Users, Sockets, QueuePairs
  <2> HIDE DEF s4, S4
  <2> QED
    BY <1>2, <1>5, <2>1, FreesThen
<1>7. Frees(s6, S6)
  <2>1. "pd" \notin S5 /\ \A y \in S5 : "pd" \notin Users(y)
    BY DEF Users, Sockets, QueuePairs
  <2> HIDE DEF s5, S5
  <2> QED
    BY <1>2, <1>6, <2>1, FreesThen
<1>8. Frees(s6 \o One("context", set), S6 \cup (set \cap {"context"}))
  <2>1. "context" \notin S6 /\ \A y \in S6 : "context" \notin Users(y)
    BY DEF Users, Sockets, QueuePairs
  <2> HIDE DEF s6, S6
  <2> QED
    BY <1>2, <1>7, <2>1, FreesThen
<1>9. S6 \cup (set \cap {"context"}) = set
  BY DEF Device, Sockets, QueuePairs
<1> QED
  BY <1>1, <1>8, <1>9

\* A failure while the caller still owns the sockets.
LEMMA CallerCleanupFrees ==
    ASSUME NEW sockets \in SUBSET Sockets
    PROVE  Frees(CloseSockets(sockets) \o Destructor(Device), Device \cup sockets)
<1>1. Frees(CloseSockets(sockets), sockets)
  <2>1. sockets \cap Sockets = sockets
    OBVIOUS
  <2> QED
    BY <2>1, CloseSocketsFrees
<1>2. Frees(Destructor(Device), Device)
  BY DestructorFrees
<1>3. sockets \cap Device = {} /\ \A x \in sockets : Users(x) \cap Device = {}
  BY DEF Device, Sockets, QueuePairs, Users
<1>4. Frees(CloseSockets(sockets) \o Destructor(Device), sockets \cup Device)
  BY <1>1, <1>2, <1>3, FreesBoth
<1>5. sockets \cup Device = Device \cup sockets
  OBVIOUS
<1> QED
  BY <1>4, <1>5

\* pg_close: the collectives, the transport, the handle.
LEMMA CloseFrees ==
    Frees(<<"collectives">> \o Destructor(Device \cup Sockets) \o <<"handle">>,
          Resources \ Lists)
<1>1. "collectives" \in Resources /\ "handle" \in Resources
  BY DEF Resources
<1>2. Frees(<<"collectives">>, {"collectives"}) /\ Frees(<<"handle">>, {"handle"})
  BY <1>1, FreesSingle
<1>3. Frees(Destructor(Device \cup Sockets), Device \cup Sockets)
  BY DestructorFrees
<1>4. Frees(<<"collectives">> \o Destructor(Device \cup Sockets),
            {"collectives"} \cup (Device \cup Sockets))
  <2>1. /\ {"collectives"} \cap (Device \cup Sockets) = {}
        /\ \A x \in {"collectives"} : Users(x) \cap (Device \cup Sockets) = {}
    BY DEF Device, Sockets, QueuePairs, Users
  <2> QED
    BY <1>2, <1>3, <2>1, FreesBoth
<1>5. Frees(<<"collectives">> \o Destructor(Device \cup Sockets) \o <<"handle">>,
            {"collectives"} \cup (Device \cup Sockets) \cup {"handle"})
  <2> DEFINE s == <<"collectives">> \o Destructor(Device \cup Sockets)
             S == {"collectives"} \cup (Device \cup Sockets)
  <2>1. S \cap {"handle"} = {} /\ \A x \in S : Users(x) \cap {"handle"} = {}
    BY DEF Device, Sockets, QueuePairs, Users
  <2>2. Frees(s, S)
    BY <1>4
  <2> HIDE DEF s, S
  <2>3. Frees(s \o <<"handle">>, S \cup {"handle"})
    BY <1>2, <2>1, <2>2, FreesBoth
  <2> QED
    BY <2>3 DEF s, S
<1>6. {"collectives"} \cup (Device \cup Sockets) \cup {"handle"} = Resources \ Lists
  BY DEF Device, Resources, Lists, Sockets, QueuePairs
<1> QED
  BY <1>5, <1>6

\* What the other ranks have does not change.
OthersKeep(r) ==
    \A p \in Ranks \ {r} :
        /\ stage'[p] = stage[p] /\ status'[p] = status[p] /\ live'[p] = live[p]
        /\ members'[p] = members[p] /\ freeing'[p] = freeing[p]

LEMMA OwnershipByRank ==
    ASSUME OwnershipInv, NEW r \in Ranks, OthersKeep(r), OwnedAt(r)'
    PROVE  OwnershipInv'
BY DEF OwnershipInv, OwnedAt, OthersKeep

LEMMA GotoEffect ==
    ASSUME ControlTypes, NEW r \in Ranks, NEW next, Goto(r, next)
    PROVE  /\ stage'[r] = next /\ freeing'[r] = freeing[r]
           /\ \A p \in Ranks \ {r} :
                 stage'[p] = stage[p] /\ status'[p] = status[p] /\ freeing'[p] = freeing[p]
BY DEF ControlTypes, Goto

LEMMA FailEffect ==
    ASSUME ControlTypes, NEW r \in Ranks, NEW error, NEW cleanup, Fail(r, error, cleanup)
    PROVE  /\ stage'[r] = "freeing" /\ status'[r] = error /\ freeing'[r] = cleanup
           /\ \A p \in Ranks \ {r} :
                 stage'[p] = stage[p] /\ status'[p] = status[p] /\ freeing'[p] = freeing[p]
BY DEF ControlTypes, Fail

LEMMA OwnEffect ==
    ASSUME OwnershipTypes, NEW r \in Ranks, NEW resources, Own(r, resources)
    PROVE  /\ live'[r] = live[r] \cup resources
           /\ \A p \in Ranks \ {r} : live'[p] = live[p]
BY DEF OwnershipTypes, Own

LEMMA DiesEffect ==
    ASSUME ControlTypes, OwnershipTypes, NEW r \in Ranks, Dies(r)
    PROVE  OwnedAt(r)' /\ OthersKeep(r)
<1>1. /\ stage'[r] = "dead" /\ live'[r] = {} /\ freeing'[r] = <<>>
      /\ OthersKeep(r)
  BY DEF ControlTypes, OwnershipTypes, Dies, OthersKeep
<1> QED
  BY <1>1 DEF OwnedAt, Owned, Before, Meeting, Exchanging, Finishing, InUse, Gone

LEMMA DeviceStepOwned ==
    ASSUME ControlTypes, OwnershipTypes, NEW r \in Ranks, OwnedAt(r),
           \/ CheckArguments(r) \/ GetDeviceList(r) \/ OpenDevice(r) \/ AllocPd(r) \/ QueryPort(r)
           \/ CreateTransport(r) \/ CreateQps(r)
    PROVE  OwnedAt(r)' /\ OthersKeep(r)
<1> DEFINE at == stage[r]
<1>1. /\ at \in Before /\ freeing[r] = <<>> /\ live[r] = Obtained(at)
      /\ members[r] = IF at = "qps" THEN {"context", "pd", "cq"} ELSE {}
  <2>1. at \in Before
    BY DEF Before, CheckArguments, GetDeviceList, OpenDevice, AllocPd, QueryPort,
           CreateTransport, CreateQps
  <2>2. at # "freeing"
    BY <2>1 DEF Before
  <2> QED
    BY <2>1, <2>2 DEF OwnedAt, Owned
<1>2. Frees(<<>>, {}) /\ Frees(<<"context">>, {"context"})
  BY FreesEmpty, FreesSingle DEF Resources
<1>3. Frees(<<"pd", "context">>, {"context", "pd"})
  BY DEF Frees, Resources, Users, Sockets, QueuePairs
<1>4. CASE CheckArguments(r)
  <2>1. OthersKeep(r) /\ live'[r] = live[r] /\ members'[r] = members[r]
    BY <1>4, GotoEffect, FailEffect DEF CheckArguments, OthersKeep
  <2>2. at = "arguments"
    BY <1>4 DEF CheckArguments
  <2>3. \/ stage'[r] = "device" /\ freeing'[r] = <<>>
        \/ stage'[r] = "freeing" /\ freeing'[r] = <<>>
    BY <1>1, <1>4, GotoEffect, FailEffect DEF CheckArguments
  <2> QED
    BY <1>1, <1>2, <2>1, <2>2, <2>3
       DEF OwnedAt, Owned, Obtained, Before, Meeting, Exchanging, Finishing, InUse, Gone
<1>10. CASE GetDeviceList(r)
  <2>1. OthersKeep(r) /\ members'[r] = members[r]
    BY <1>10, GotoEffect, FailEffect, OwnEffect DEF GetDeviceList, OthersKeep
  <2>2. at = "device" /\ PG_ERR_TRANSPORT # PG_SUCCESS
    BY <1>10 DEF GetDeviceList, PG_ERR_TRANSPORT, PG_SUCCESS
  <2>3. \/ stage'[r] = "open" /\ freeing'[r] = <<>> /\ live'[r] = {"device_list"}
        \/ /\ stage'[r] = "freeing" /\ status'[r] = PG_ERR_TRANSPORT /\ freeing'[r] = <<>>
           /\ live'[r] \in {{}, {"empty_list"}}
    <3>1. live[r] = {}
      BY <1>1, <2>2 DEF Obtained
    <3> QED
      BY <1>1, <1>10, <3>1, GotoEffect, FailEffect, OwnEffect DEF GetDeviceList
  <2> QED
    BY <1>1, <1>2, <2>1, <2>2, <2>3
       DEF OwnedAt, Owned, NoDevice, Obtained, Before, Meeting, Exchanging, Finishing,
           InUse, Gone
<1>5. CASE OpenDevice(r)
  <2>1. OthersKeep(r) /\ members'[r] = members[r]
    BY <1>5, GotoEffect, FailEffect DEF OpenDevice, OthersKeep, OwnershipTypes
  <2>2. at = "open" /\ live[r] = {"device_list"}
    BY <1>1, <1>5 DEF OpenDevice, Obtained
  <2>3. \/ stage'[r] = "pd" /\ freeing'[r] = <<>> /\ live'[r] = {"context"}
        \/ stage'[r] = "freeing" /\ freeing'[r] = <<"device_list">> /\ live'[r] = live[r]
    BY <1>1, <1>5, <2>2, GotoEffect, FailEffect DEF OpenDevice, OwnershipTypes
  <2>4. Frees(<<"device_list">>, {"device_list"})
    BY FreesSingle DEF Resources, Lists
  <2> QED
    BY <1>1, <2>1, <2>2, <2>3, <2>4
       DEF OwnedAt, Owned, Obtained, Before, Meeting, Exchanging, Finishing, InUse, Gone
<1>6. CASE AllocPd(r)
  <2>1. OthersKeep(r) /\ members'[r] = members[r]
    BY <1>6, GotoEffect, FailEffect, OwnEffect DEF AllocPd, OthersKeep
  <2>2. at = "pd"
    BY <1>6 DEF AllocPd
  <2>3. \/ stage'[r] = "port" /\ freeing'[r] = <<>> /\ live'[r] = live[r] \cup {"pd"}
        \/ stage'[r] = "freeing" /\ freeing'[r] = <<"context">> /\ live'[r] = live[r]
    BY <1>1, <1>6, GotoEffect, FailEffect, OwnEffect DEF AllocPd
  <2> QED
    BY <1>1, <1>2, <2>1, <2>2, <2>3
       DEF OwnedAt, Owned, Obtained, Before, Meeting, Exchanging, Finishing, InUse, Gone
<1>7. CASE QueryPort(r)
  <2>1. OthersKeep(r) /\ members'[r] = members[r] /\ live'[r] = live[r]
    BY <1>7, GotoEffect, FailEffect DEF QueryPort, OthersKeep
  <2>2. at = "port"
    BY <1>7 DEF QueryPort
  <2>3. \/ stage'[r] = "transport" /\ freeing'[r] = <<>>
        \/ stage'[r] = "freeing" /\ freeing'[r] = <<"pd", "context">>
    BY <1>1, <1>7, GotoEffect, FailEffect DEF QueryPort
  <2> QED
    BY <1>1, <1>3, <2>1, <2>2, <2>3
       DEF OwnedAt, Owned, Obtained, Before, Meeting, Exchanging, Finishing, InUse, Gone
<1>8. CASE CreateTransport(r)
  <2>1. OthersKeep(r)
    BY <1>8, GotoEffect, FailEffect, OwnEffect DEF CreateTransport, OthersKeep, OwnershipTypes
  <2>2. at = "transport"
    BY <1>8 DEF CreateTransport
  <2>3. \/ /\ stage'[r] = "qps" /\ freeing'[r] = <<>> /\ live'[r] = live[r] \cup {"cq"}
           /\ members'[r] = {"context", "pd", "cq"}
        \/ stage'[r] = "freeing" /\ freeing'[r] = <<"pd", "context">> /\ live'[r] = live[r]
    BY <1>1, <1>8, GotoEffect, FailEffect, OwnEffect DEF CreateTransport, OwnershipTypes
  <2> QED
    BY <1>1, <1>3, <2>1, <2>2, <2>3
       DEF OwnedAt, Owned, Obtained, Before, Meeting, Exchanging, Finishing, InUse, Gone
<1>9. CASE CreateQps(r)
  <2>1. /\ live[r] = {"context", "pd", "cq"} /\ members[r] = {"context", "pd", "cq"}
    BY <1>1, <1>9 DEF CreateQps, Obtained
  <2>2. CASE /\ Goto(r, IF ConnectsFirst(r) THEN "connect" ELSE "listen")
             /\ Own(r, QueuePairs)
             /\ members' = [members EXCEPT ![r] = @ \cup QueuePairs]
    <3>1. OthersKeep(r)
      BY <2>2, GotoEffect, OwnEffect DEF OthersKeep, OwnershipTypes
    <3>2. /\ stage'[r] \in Meeting /\ freeing'[r] = <<>>
          /\ live'[r] = Device /\ members'[r] = Device
      BY <1>1, <2>1, <2>2, GotoEffect, OwnEffect DEF OwnershipTypes, Meeting, Device
    <3> QED
      BY <3>1, <3>2 DEF OwnedAt, Owned, Before, Meeting, Exchanging, Finishing, InUse, Gone
  <2>3. ASSUME NEW created \in {{}, {"qp_next"}, {"qp_prev"}},
               Own(r, created), UNCHANGED members,
               Fail(r, PG_ERR_TRANSPORT, One("qp_next", created) \o
                       One("qp_prev", created) \o Destructor(members[r]))
        PROVE  OwnedAt(r)' /\ OthersKeep(r)
    <3> DEFINE base == {"context", "pd", "cq"}
               qps == One("qp_next", created) \o One("qp_prev", created)
    <3>1. Frees(Destructor(base), base)
      BY DestructorFrees DEF Device
    <3>2. Frees(qps, created)
      <4>1. Frees(One("qp_next", created), created \cap {"qp_next"})
        BY FreesOne DEF Resources, QueuePairs
      <4>2. Frees(qps, (created \cap {"qp_next"}) \cup (created \cap {"qp_prev"}))
        BY <4>1, FreesThen DEF Resources, Users, Sockets, QueuePairs
      <4>3. (created \cap {"qp_next"}) \cup (created \cap {"qp_prev"}) = created
        OBVIOUS
      <4> QED
        BY <4>2, <4>3
    <3>3. created \cap base = {} /\ \A x \in created : Users(x) \cap base = {}
      BY DEF Users, Sockets, QueuePairs
    <3>4. Frees(qps \o Destructor(base), created \cup base)
      BY <3>1, <3>2, <3>3, FreesBoth
    <3>6. Fail(r, PG_ERR_TRANSPORT, qps \o Destructor(base))
      BY <2>1, <2>3
    <3> HIDE DEF base, qps
    <3>7. /\ stage'[r] = "freeing" /\ freeing'[r] = qps \o Destructor(base)
          /\ \A p \in Ranks \ {r} :
                stage'[p] = stage[p] /\ status'[p] = status[p] /\ freeing'[p] = freeing[p]
      BY <3>6, FailEffect
    <3>8. /\ live'[r] = created \cup base
          /\ \A p \in Ranks \ {r} : live'[p] = live[p]
      BY <2>1, <2>3, OwnEffect DEF base
    <3>5. /\ OthersKeep(r)
          /\ stage'[r] = "freeing" /\ freeing'[r] = qps \o Destructor(base)
          /\ live'[r] = created \cup base
      BY <2>3, <3>7, <3>8 DEF OthersKeep
    <3> HIDE DEF base, qps
    <3> QED
      BY <3>4, <3>5 DEF OwnedAt, Owned, Before, Meeting, Exchanging, Finishing, InUse, Gone
  <2> QED
    BY <1>9, <2>2, <2>3 DEF CreateQps
<1> QED
  BY <1>4, <1>5, <1>6, <1>7, <1>8, <1>9, <1>10

LEMMA RingStepOwned ==
    ASSUME ControlTypes, OwnershipTypes, NEW r \in Ranks, OwnedAt(r),
           Connect(r) \/ GiveUp(r) \/ Listen(r) \/ Accept(r)
    PROVE  OwnedAt(r)' /\ OthersKeep(r)
<1>1. /\ stage[r] \in Meeting /\ freeing[r] = <<>> /\ members[r] = Device
      /\ Device \subseteq live[r] /\ live[r] \subseteq Device \cup Sockets
  <2>1. stage[r] \in Meeting /\ stage[r] # "freeing"
    BY DEF Meeting, Connect, GiveUp, Listen, Accept
  <2> QED
    BY <2>1 DEF OwnedAt, Owned
\* Leaving a call for the sockets with exactly these sockets.
<1>2. ASSUME NEW first, NEW sockets, LeaveSocketCall(r, first, sockets),
             live'[r] = Device \cup sockets, sockets \subseteq Sockets,
             UNCHANGED members, \A p \in Ranks \ {r} : live'[p] = live[p]
      PROVE  OwnedAt(r)' /\ OthersKeep(r)
  <2>1. CASE Goto(r, IF ConnectsFirst(r) THEN "listen" ELSE "connect")
    <3>1. OthersKeep(r) /\ stage'[r] \in Meeting /\ freeing'[r] = <<>>
      BY <1>1, <1>2, <2>1, GotoEffect DEF OthersKeep, Meeting
    <3> QED
      BY <1>1, <1>2, <3>1
         DEF OwnedAt, Owned, Before, Meeting, Exchanging, Finishing, InUse, Gone
  <2>2. CASE sockets = Sockets /\ Goto(r, "writeNext")
    <3>1. OthersKeep(r) /\ stage'[r] = "writeNext" /\ freeing'[r] = <<>>
      BY <1>1, <1>2, <2>2, GotoEffect DEF OthersKeep
    <3> QED
      BY <1>1, <1>2, <2>2, <3>1
         DEF OwnedAt, Owned, Before, Meeting, Exchanging, Finishing, InUse, Gone
  <2>3. CASE Fail(r, PG_ERR_TRANSPORT, CloseSockets(sockets) \o Destructor(members[r]))
    <3>1. Fail(r, PG_ERR_TRANSPORT, CloseSockets(sockets) \o Destructor(Device))
      BY <1>1, <2>3
    <3>2. /\ OthersKeep(r) /\ stage'[r] = "freeing"
          /\ freeing'[r] = CloseSockets(sockets) \o Destructor(Device)
      <4> DEFINE list == CloseSockets(sockets) \o Destructor(Device)
      <4>1. Fail(r, PG_ERR_TRANSPORT, list)
        BY <3>1
      <4> HIDE DEF list
      <4>2. /\ stage'[r] = "freeing" /\ freeing'[r] = list
            /\ \A p \in Ranks \ {r} :
                  stage'[p] = stage[p] /\ status'[p] = status[p] /\ freeing'[p] = freeing[p]
        BY <4>1, FailEffect
      <4> QED
        BY <1>2, <4>2 DEF OthersKeep, list
    <3>3. Frees(freeing'[r], live'[r])
      BY <1>2, <3>2, CallerCleanupFrees
    <3> QED
      BY <3>2, <3>3 DEF OwnedAt, Owned, Before, Meeting, Exchanging, Finishing, InUse, Gone
  <2> QED
    BY <1>2, <2>1, <2>2, <2>3 DEF LeaveSocketCall
<1>3. /\ live[r] = Device \cup (live[r] \cap Sockets)
      /\ live[r] \cap Sockets \subseteq Sockets
  BY <1>1
<1>4. CASE Connect(r)
  <2>1. \E sockets \in SUBSET Sockets :
            /\ LeaveSocketCall(r, ConnectsFirst(r), sockets)
            /\ sockets = (live[r] \cap Sockets) \cup {"next_socket"}
    BY <1>4 DEF Connect, Sockets
  <2>2. /\ live'[r] = live[r] \cup {"next_socket"} /\ UNCHANGED members
        /\ \A p \in Ranks \ {r} : live'[p] = live[p]
    BY <1>4, OwnEffect DEF Connect
  <2>3. live'[r] = Device \cup ((live[r] \cap Sockets) \cup {"next_socket"})
    BY <1>3, <2>2
  <2> QED
    BY <1>2, <2>1, <2>2, <2>3
<1>5. CASE GiveUp(r)
  <2>1. LeaveSocketCall(r, ConnectsFirst(r), live[r] \cap Sockets) /\ UNCHANGED <<live, members>>
    BY <1>5 DEF GiveUp
  <2> QED
    BY <1>2, <1>3, <2>1
<1>6. CASE Listen(r)
  <2>1. CASE Goto(r, "accept")
    <3>1. /\ OthersKeep(r) /\ stage'[r] \in Meeting /\ freeing'[r] = <<>>
          /\ UNCHANGED <<live, members>>
      BY <1>1, <1>6, <2>1, GotoEffect DEF Listen, OthersKeep, Meeting
    <3> QED
      BY <1>1, <3>1 DEF OwnedAt, Owned, Before, Meeting, Exchanging, Finishing, InUse, Gone
  <2>2. CASE LeaveSocketCall(r, ~ConnectsFirst(r), live[r] \cap Sockets)
    BY <1>2, <1>3, <1>6, <2>2 DEF Listen
  <2> QED
    BY <1>6, <2>1, <2>2 DEF Listen
<1>7. CASE Accept(r)
  <2>1. CASE /\ Own(r, {"previous_socket"})
             /\ LeaveSocketCall(r, ~ConnectsFirst(r),
                                (live[r] \cap Sockets) \cup {"previous_socket"})
    <3>1. /\ live'[r] = live[r] \cup {"previous_socket"} /\ UNCHANGED members
          /\ \A p \in Ranks \ {r} : live'[p] = live[p]
      BY <1>7, <2>1, OwnEffect DEF Accept
    <3>2. /\ live'[r] = Device \cup ((live[r] \cap Sockets) \cup {"previous_socket"})
          /\ (live[r] \cap Sockets) \cup {"previous_socket"} \subseteq Sockets
      BY <1>3, <3>1 DEF Sockets
    <3> QED
      BY <1>2, <2>1, <3>1, <3>2
  <2>2. CASE UNCHANGED live /\ LeaveSocketCall(r, ~ConnectsFirst(r), live[r] \cap Sockets)
    BY <1>2, <1>3, <1>7, <2>2 DEF Accept
  <2> QED
    BY <1>7, <2>1, <2>2 DEF Accept
<1> QED
  BY <1>4, <1>5, <1>6, <1>7

\* A stage of the exchange is left for another, or with everything given back.
LEMMA ExchangeStepOwned ==
    ASSUME ControlTypes, OwnershipTypes, NEW r \in Ranks, OwnedAt(r),
           \/ WriteRecord(r) \/ ReadRecord(r) \/ TransitionToRts(r)
           \/ WriteReady(r) \/ ReadReady(r)
    PROVE  OwnedAt(r)' /\ OthersKeep(r)
<1> DEFINE Cleanup == CloseSockets(Sockets) \o Destructor(members[r])
<1>1. /\ stage[r] \in Exchanging /\ freeing[r] = <<>>
      /\ live[r] = Device \cup Sockets /\ members[r] = Device
  <2>1. stage[r] \in Exchanging /\ stage[r] # "freeing"
    BY DEF Exchanging, WriteRecord, ReadRecord, TransitionToRts, WriteReady, ReadReady, Sockets
  <2> QED
    BY <2>1 DEF OwnedAt, Owned
<1>2. ASSUME NEW next \in Exchanging, Goto(r, next), UNCHANGED <<live, members>>
      PROVE  OwnedAt(r)' /\ OthersKeep(r)
  <2>1. OthersKeep(r) /\ stage'[r] \in Exchanging /\ freeing'[r] = <<>>
    BY <1>1, <1>2, GotoEffect DEF OthersKeep
  <2> QED
    BY <1>1, <1>2, <2>1
       DEF OwnedAt, Owned, Before, Meeting, Exchanging, Finishing, InUse, Gone
<1>3. ASSUME Fail(r, PG_ERR_TRANSPORT, Cleanup), UNCHANGED <<live, members>>
      PROVE  OwnedAt(r)' /\ OthersKeep(r)
  <2>1. Fail(r, PG_ERR_TRANSPORT, CloseSockets(Sockets) \o Destructor(Device))
    BY <1>1, <1>3
  <2>2. /\ OthersKeep(r) /\ stage'[r] = "freeing"
        /\ freeing'[r] = CloseSockets(Sockets) \o Destructor(Device)
    BY <1>3, <2>1, FailEffect DEF OthersKeep
  <2>3. Frees(freeing'[r], live'[r])
    BY <1>1, <1>3, <2>2, CallerCleanupFrees
  <2> QED
    BY <2>2, <2>3 DEF OwnedAt, Owned, Before, Meeting, Exchanging, Finishing, InUse, Gone
<1>4. ASSUME NEW socket, NEW message, NEW next \in Exchanging, Write(r, socket, message, next)
      PROVE  OwnedAt(r)' /\ OthersKeep(r)
  BY <1>2, <1>3, <1>4, DiesEffect DEF Write
<1>5. /\ "writePrevious" \in Exchanging /\ "readNext" \in Exchanging
      /\ "readPrevious" \in Exchanging /\ "transition" \in Exchanging
      /\ "readyNext" \in Exchanging /\ "readyPrevious" \in Exchanging
      /\ "awaitNext" \in Exchanging /\ "awaitPrevious" \in Exchanging
  BY DEF Exchanging
<1>6. CASE WriteRecord(r)
  <2>1. \E socket \in Sockets, message \in {ExchangeData(<<r, "qp_next">>),
                                            ExchangeData(<<r, "qp_prev">>)},
           next \in Exchanging : Write(r, socket, message, next)
    BY <1>5, <1>6 DEF WriteRecord, Sockets
  <2> QED
    BY <1>4, <2>1
<1>7. CASE WriteReady(r)
  <2>1. \E socket \in Sockets, next \in Exchanging : Write(r, socket, Ready, next)
    BY <1>5, <1>7 DEF WriteReady, Sockets
  <2> QED
    BY <1>4, <2>1
<1>8. CASE ReadRecord(r)
  <2>1. /\ UNCHANGED <<live, members>>
        /\ \/ \E next \in Exchanging : Goto(r, next)
           \/ Fail(r, PG_ERR_TRANSPORT, Cleanup)
    BY <1>5, <1>8 DEF ReadRecord, ReadFails
  <2> QED
    BY <1>2, <1>3, <2>1
<1>9. CASE TransitionToRts(r)
  <2>1. /\ UNCHANGED <<live, members>>
        /\ \/ \E next \in Exchanging : Goto(r, next)
           \/ Fail(r, PG_ERR_TRANSPORT, Cleanup)
    BY <1>5, <1>9 DEF TransitionToRts
  <2> QED
    BY <1>2, <1>3, <2>1
<1>10. CASE ReadReady(r)
  <2>1. /\ UNCHANGED live
        /\ \/ UNCHANGED members /\ \E next \in Exchanging : Goto(r, next)
           \/ UNCHANGED members /\ Fail(r, PG_ERR_TRANSPORT, Cleanup)
           \/ Goto(r, "configure") /\ members' = [members EXCEPT ![r] = @ \cup Sockets]
    BY <1>5, <1>10 DEF ReadReady, ReadFails
  <2>2. CASE Goto(r, "configure") /\ members' = [members EXCEPT ![r] = @ \cup Sockets]
    <3>1. /\ OthersKeep(r) /\ stage'[r] = "configure" /\ freeing'[r] = <<>>
          /\ live'[r] = Device \cup Sockets /\ members'[r] = Device \cup Sockets
      BY <1>1, <2>1, <2>2, GotoEffect DEF OthersKeep, OwnershipTypes
    <3> QED
      BY <3>1 DEF OwnedAt, Owned, Before, Meeting, Exchanging, Finishing, InUse, Gone
  <2> QED
    BY <1>2, <1>3, <2>1, <2>2
<1> QED
  BY <1>6, <1>7, <1>8, <1>9, <1>10

\* The handle is built, used, closed; what is to be given back is given back.
LEMMA HandleStepOwned ==
    ASSUME ControlTypes, OwnershipTypes, NEW r \in Ranks, OwnedAt(r),
           \/ Configure(r) \/ CreateHandle(r) \/ Announce(r) \/ Close(r)
           \/ Free(r) \/ Return(r) \/ Crash(r)
    PROVE  OwnedAt(r)' /\ OthersKeep(r)
<1>1. stage[r] \in Finishing =>
          /\ freeing[r] = <<>> /\ live[r] = Device \cup Sockets
          /\ members[r] = Device \cup Sockets
  BY DEF OwnedAt, Owned, Finishing
<1>2. stage[r] \in InUse =>
          /\ freeing[r] = <<>> /\ live[r] = Resources \ Lists
          /\ members[r] = Device \cup Sockets
  BY DEF OwnedAt, Owned, InUse
<1>3. Frees(Destructor(Device \cup Sockets), Device \cup Sockets)
  BY DestructorFrees
<1>4. CASE Configure(r)
  <2>1. stage[r] \in Finishing /\ UNCHANGED <<live, members>>
    BY <1>4 DEF Configure, Finishing
  <2>2. CASE Goto(r, "create")
    <3>1. OthersKeep(r) /\ stage'[r] = "create" /\ freeing'[r] = <<>>
      BY <1>1, <2>1, <2>2, GotoEffect DEF OthersKeep
    <3> QED
      BY <1>1, <2>1, <3>1
         DEF OwnedAt, Owned, Before, Meeting, Exchanging, Finishing, InUse, Gone
  <2>3. CASE Fail(r, PG_ERR_INVALID_ARGUMENT, Destructor(members[r]))
    <3>1. Fail(r, PG_ERR_INVALID_ARGUMENT, Destructor(Device \cup Sockets))
      BY <1>1, <2>1, <2>3
    <3>2. /\ OthersKeep(r) /\ stage'[r] = "freeing"
          /\ freeing'[r] = Destructor(Device \cup Sockets)
      BY <2>1, <3>1, FailEffect DEF OthersKeep
    <3>3. Frees(freeing'[r], live'[r])
      BY <1>1, <1>3, <2>1, <3>2
    <3> QED
      BY <3>2, <3>3 DEF OwnedAt, Owned, Before, Meeting, Exchanging, Finishing, InUse, Gone
  <2> QED
    BY <1>4, <2>2, <2>3 DEF Configure
<1>5. CASE CreateHandle(r)
  <2>1. stage[r] \in Finishing /\ UNCHANGED members
    BY <1>5 DEF CreateHandle, Finishing
  <2>2. CASE /\ stage'  = [stage EXCEPT ![r] = "connected"]
             /\ status' = [status EXCEPT ![r] = PG_SUCCESS]
             /\ Own(r, {"handle", "collectives"}) /\ UNCHANGED freeing
    <3>1. /\ OthersKeep(r) /\ stage'[r] = "connected" /\ freeing'[r] = <<>>
          /\ live'[r] = (Device \cup Sockets) \cup {"handle", "collectives"}
      BY <1>1, <2>1, <2>2, OwnEffect DEF OthersKeep, ControlTypes
    <3>2. live'[r] = Resources \ Lists
      BY <3>1 DEF Device, Resources, Lists, Sockets, QueuePairs
    <3> QED
      BY <1>1, <2>1, <3>1, <3>2
         DEF OwnedAt, Owned, Before, Meeting, Exchanging, Finishing, InUse, Gone
  <2>3. ASSUME NEW created \in {{}, {"handle"}}, Own(r, created),
               Fail(r, PG_ERR_NO_MEMORY, One("handle", created) \o Destructor(members[r]))
        PROVE  OwnedAt(r)' /\ OthersKeep(r)
    <3> DEFINE list == One("handle", created) \o Destructor(Device \cup Sockets)
    <3>1. Fail(r, PG_ERR_NO_MEMORY, list)
      BY <1>1, <2>1, <2>3
    <3>2. Frees(One("handle", created), created)
      <4>1. Frees(One("handle", created), created \cap {"handle"})
        BY FreesOne DEF Resources
      <4>2. created \cap {"handle"} = created
        OBVIOUS
      <4> QED
        BY <4>1, <4>2
    <3>3. /\ created \cap (Device \cup Sockets) = {}
          /\ \A x \in created : Users(x) \cap (Device \cup Sockets) = {}
      BY DEF Device, Sockets, QueuePairs, Users
    <3>4. Frees(list, created \cup (Device \cup Sockets))
      BY <1>3, <3>2, <3>3, FreesBoth
    <3> HIDE DEF list
    <3>5. live'[r] = created \cup (Device \cup Sockets)
      BY <1>1, <2>1, <2>3, OwnEffect
    <3>6. OthersKeep(r) /\ stage'[r] = "freeing" /\ freeing'[r] = list
      BY <2>1, <2>3, <3>1, FailEffect, OwnEffect DEF OthersKeep
    <3>7. Frees(freeing'[r], live'[r])
      BY <3>4, <3>5, <3>6
    <3> QED
      BY <3>6, <3>7 DEF OwnedAt, Owned, Before, Meeting, Exchanging, Finishing, InUse, Gone
  <2> QED
    BY <1>5, <2>2, <2>3 DEF CreateHandle
<1>6. CASE Announce(r)
  <2>1. stage[r] \in InUse
    BY <1>6 DEF Announce, InUse
  <2>2. CASE Goto(r, "running") /\ UNCHANGED <<live, members>>
    <3>1. OthersKeep(r) /\ stage'[r] = "running" /\ freeing'[r] = <<>>
      BY <1>2, <2>1, <2>2, GotoEffect DEF OthersKeep
    <3> QED
      BY <1>2, <2>1, <2>2, <3>1
         DEF OwnedAt, Owned, Before, Meeting, Exchanging, Finishing, InUse, Gone
  <2> QED
    BY <1>6, <2>2, DiesEffect DEF Announce
<1>7. CASE Close(r)
  <2>1. stage[r] \in InUse
    BY <1>7 DEF Close, InUse
  <2>2. /\ OthersKeep(r) /\ stage'[r] = "freeing" /\ live'[r] = live[r]
        /\ freeing'[r] = <<"collectives">> \o Destructor(members[r]) \o <<"handle">>
    BY <1>7 DEF Close, OthersKeep, ControlTypes
  <2>3. freeing'[r] = <<"collectives">> \o Destructor(Device \cup Sockets) \o <<"handle">>
    BY <1>2, <2>1, <2>2
  <2>4. Frees(freeing'[r], live'[r])
    BY <1>2, <2>1, <2>2, <2>3, CloseFrees
  <2> QED
    BY <2>2, <2>4 DEF OwnedAt, Owned, Before, Meeting, Exchanging, Finishing, InUse, Gone
<1>8. CASE Free(r)
  <2>1. Frees(freeing[r], live[r]) /\ freeing[r] # <<>>
    BY <1>8 DEF Free, OwnedAt, Owned, NoDevice
  <2>2. /\ OthersKeep(r) /\ stage'[r] = "freeing"
        /\ freeing'[r] = Tail(freeing[r])
        /\ live'[r] = live[r] \ {Head(freeing[r])}
    BY <1>8 DEF Free, OthersKeep, ControlTypes, OwnershipTypes
  <2>3. Frees(freeing'[r], live'[r])
    BY <2>1, <2>2, FreesTail
  <2> QED
    BY <2>2, <2>3 DEF OwnedAt, Owned, Before, Meeting, Exchanging, Finishing, InUse, Gone
<1>9. CASE Return(r)
  <2>1. /\ freeing[r] = <<>>
        /\ Frees(freeing[r], live[r]) \/ NoDevice(status[r], live[r], freeing[r])
    BY <1>9 DEF Return, OwnedAt, Owned
  <2>2. live[r] = {} \/ (live[r] = {"empty_list"} /\ status[r] # PG_SUCCESS)
    BY <2>1 DEF Frees, NoDevice
  <2>3. /\ OthersKeep(r) /\ freeing'[r] = <<>> /\ live'[r] = live[r]
        /\ stage'[r] = IF status[r] = PG_SUCCESS THEN "closed" ELSE "returned"
    BY <1>9, <2>1, GotoEffect DEF Return, OthersKeep
  <2> QED
    BY <2>2, <2>3 DEF OwnedAt, Owned, Before, Meeting, Exchanging, Finishing, InUse, Gone
<1>10. CASE Crash(r)
  BY <1>10, DiesEffect DEF Crash
<1> QED
  BY <1>4, <1>5, <1>6, <1>7, <1>8, <1>9, <1>10

LEMMA InitOwnership == Init => OwnershipInv
BY DEF Init, OwnershipInv, OwnedAt, Owned, Obtained, Before, Meeting, Exchanging,
       Finishing, InUse, Gone

LEMMA NextOwnership == TypeOK /\ OwnershipInv /\ [Next]_vars => OwnershipInv'
<1> SUFFICES ASSUME TypeOK, OwnershipInv, [Next]_vars PROVE OwnershipInv'
  OBVIOUS
<1>1. ControlTypes /\ OwnershipTypes
  BY TypeParts
<1>2. CASE UNCHANGED vars
  BY <1>2 DEF vars, OwnershipInv, OwnedAt
<1>3. ASSUME NEW r \in Ranks, Run(r) \/ GiveUp(r) \/ Announce(r) \/ Close(r) \/ Crash(r)
      PROVE  OwnershipInv'
  <2>1. OwnedAt(r)
    BY DEF OwnershipInv
  <2>2. OwnedAt(r)' /\ OthersKeep(r)
    BY <1>1, <1>3, <2>1, DeviceStepOwned, RingStepOwned, ExchangeStepOwned, HandleStepOwned
       DEF Run
  <2> QED
    BY <2>2, OwnershipByRank
<1> QED
  BY <1>2, <1>3 DEF Next

LEMMA OwnershipSafe == OwnershipInv => FreedInOrder /\ OwnsAllOrNothing
<1> SUFFICES ASSUME OwnershipInv PROVE FreedInOrder /\ OwnsAllOrNothing
  OBVIOUS
<1>1. FreedInOrder
  <2> SUFFICES ASSUME NEW r \in Ranks, freeing[r] # <<>>
               PROVE  /\ Head(freeing[r]) \in live[r]
                      /\ Users(Head(freeing[r])) \cap live[r] = {}
    BY DEF FreedInOrder
  <2>1. Frees(freeing[r], live[r])
    BY DEF OwnershipInv, OwnedAt, Owned, NoDevice
  <2> QED
    BY <2>1, FreesTail
<1>2. OwnsAllOrNothing
  <2>1. Device \cup Sockets = (Resources \ Lists) \ {"handle", "collectives"}
    BY DEF Device, Resources, Lists, Sockets, QueuePairs
  <2> QED
    BY <2>1 DEF OwnsAllOrNothing, OwnershipInv, OwnedAt, Owned, InUse, Gone
<1> QED
  BY <1>1, <1>2

\* Nothing is given back twice or while something that uses it is still there,
\* on whatever path connect_process_group fails and when the group is closed.
THEOREM ResourcesFreedInOrder == Spec => []FreedInOrder
BY InitTypes, NextTypes, InitOwnership, NextOwnership, OwnershipSafe, PTL DEF Spec

\* A rank whose call succeeded has all it needs, the device and the sockets
\* with the transport; one that closed its group has nothing left, and one
\* whose call failed at most the empty list of a machine without devices.
THEOREM RanksOwnAllOrNothing == Spec => []OwnsAllOrNothing
BY InitTypes, NextTypes, InitOwnership, NextOwnership, OwnershipSafe, PTL DEF Spec

-----------------------------------------------------------------------------
(* The ready barrier: the invariant.                                         *)

\* The rank at the other end of a socket, once it is connected.
Neighbour(r, socket) == IF socket = "next_socket" THEN NextRank(r) ELSE PrevRank(r)

\* The queue pairs those of rank r are to be connected to.
Right(r) == [qp_next |-> <<NextRank(r), "qp_prev">>, qp_prev |-> <<PrevRank(r), "qp_next">>]

\* Rank r's call goes on or has succeeded: only its errors and crashes are out.
Active(r) == stage[r] \notin {"freeing"} \cup Gone
Known(r) == Active(r) \/ status[r] = PG_SUCCESS

AfterTransition == {"readyNext", "readyPrevious", "awaitNext", "awaitPrevious"}
                       \cup Finishing \cup InUse

\* How many messages rank r has read from a socket, and written to it.
ReadOnce(socket) ==
    {"transition"} \cup AfterTransition \cup
    (IF socket = "next_socket" THEN {"readPrevious"} ELSE {})
ReadTwice(socket) ==
    Finishing \cup InUse \cup (IF socket = "next_socket" THEN {"awaitPrevious"} ELSE {})

ReadAt(at, socket) ==
    IF at \in ReadTwice(socket) THEN 2 ELSE IF at \in ReadOnce(socket) THEN 1 ELSE 0

Reads(r, socket) == IF status[r] = PG_SUCCESS THEN 2 ELSE ReadAt(stage[r], socket)

WrittenOnce(socket) ==
    {"readNext", "readPrevious", "transition"} \cup AfterTransition \cup
    (IF socket = "next_socket" THEN {"writePrevious"} ELSE {})
WrittenTwice(socket) ==
    {"awaitNext", "awaitPrevious"} \cup Finishing \cup InUse \cup
    (IF socket = "next_socket" THEN {"readyPrevious"} ELSE {})

WrittenAt(at, socket) ==
    IF socket = "previous_socket" /\ at = "running" THEN 3
    ELSE IF at \in WrittenTwice(socket) THEN 2
    ELSE IF at \in WrittenOnce(socket) THEN 1 ELSE 0

Writes(r, socket) == WrittenAt(stage[r], socket)

\* All a rank ever writes to a socket: the descriptor to the previous one only.
Stream(r, socket) == <<ExchangeData(<<r, QpOf(socket)>>), Ready, Descriptor>>
MaxReads(socket) == IF socket = "next_socket" THEN 3 ELSE 2

\* The socket is open, or waits to be accepted.
Attached(r, socket) ==
    \/ socket \in live[r]
    \/ socket = "previous_socket" /\ stage[r] = "accept" /\ backlog[r] # NoRank

\* What waits in a socket is the stream of the neighbour from where rank r has
\* read it; all the neighbour has written, as long as both are there; and its
\* ready byte is not there before its queue pairs are.
StreamInv(r, socket) ==
    LET p == Neighbour(r, socket)
        upto == Reads(r, socket) + Len(inbox[r][socket])
    IN  Known(r) =>
          /\ upto <= MaxReads(socket)
          /\ \A k \in 1..Len(inbox[r][socket]) :
                inbox[r][socket][k] = Stream(p, Other(socket))[Reads(r, socket) + k]
          /\ Attached(r, socket) /\ Active(p) => upto = Writes(p, Other(socket))
          /\ upto >= 2 => dest[p] = Right(p)

YetToConnect(r) ==
    \/ stage[r] \in Before \cup {"connect"}
    \/ stage[r] \in {"listen", "accept"} /\ ~ConnectsFirst(r)

\* Sockets lead to the neighbours only.
PeersInv(r) ==
    /\ backlog[r] \in {NoRank, PrevRank(r)}
    /\ \A s \in Sockets : peer[r][s] \in {NoRank, Neighbour(r, s)}
    /\ \A s \in Sockets : s \in live[r] => peer[r][s] = Neighbour(r, s)
    /\ Active(r) /\ stage[r] # "accept" => backlog[r] = NoRank
    /\ YetToConnect(r) => peer[r].next_socket = NoRank
    /\ peer[r].next_socket = NoRank =>
          inbox[r].next_socket = <<>> /\ inbox[NextRank(r)].previous_socket = <<>>

\* What rank r knows of its neighbours' queue pairs.
ProgressInv(r) ==
    /\ stage[r] \in InUse => status[r] = PG_SUCCESS
    /\ status[r] = PG_SUCCESS => stage[r] \in {"freeing"} \cup InUse \cup Gone
    /\ stage[r] \in {"readPrevious", "transition"} =>
          remote[r].next_socket = <<NextRank(r), "qp_prev">>
    /\ stage[r] = "transition" =>
          remote[r].previous_socket = <<PrevRank(r), "qp_next">>
    /\ stage[r] \in AfterTransition \/ status[r] = PG_SUCCESS => dest[r] = Right(r)

Streams  == \A r \in Ranks : \A s \in Sockets : StreamInv(r, s)
Peers    == \A r \in Ranks : PeersInv(r)
Progress == \A r \in Ranks : ProgressInv(r)
BarrierInv == Streams /\ Peers /\ Progress

-----------------------------------------------------------------------------
(* The ring.                                                                 *)

LEMMA SmallMod ==
    ASSUME NEW n \in Nat, n > 0
    PROVE  /\ n % n = 0
           /\ \A a \in Nat : a < n => a % n = a /\ (a + n) % n = a
BY SMT

LEMMA RankArithmetic ==
    ASSUME NEW r \in Ranks
    PROVE  /\ NextRank(r) = IF r + 1 = WorldSize THEN 0 ELSE r + 1
           /\ PrevRank(r) = IF r = 0 THEN WorldSize - 1 ELSE r - 1
<1>1. WorldSize \in Nat /\ WorldSize >= 2 /\ r \in Nat /\ r < WorldSize
  BY BootstrapAssumption DEF Ranks
<1>2. NextRank(r) = IF r + 1 = WorldSize THEN 0 ELSE r + 1
  <2>1. CASE r + 1 = WorldSize
    <3>1. WorldSize % WorldSize = 0
      BY <1>1, SmallMod
    <3> QED
      BY <2>1, <3>1 DEF NextRank
  <2>2. CASE r + 1 # WorldSize
    <3>1. r + 1 \in Nat /\ r + 1 < WorldSize
      BY <1>1, <2>2
    <3>2. (r + 1) % WorldSize = r + 1
      BY <1>1, <3>1, SmallMod
    <3> QED
      BY <2>2, <3>2 DEF NextRank
  <2> QED
    BY <2>1, <2>2
<1>3. PrevRank(r) = IF r = 0 THEN WorldSize - 1 ELSE r - 1
  <2>1. CASE r = 0
    <3>1. WorldSize - 1 \in Nat /\ WorldSize - 1 < WorldSize /\ r - 1 + WorldSize = WorldSize - 1
      BY <1>1, <2>1
    <3>2. (WorldSize - 1) % WorldSize = WorldSize - 1
      BY <1>1, <3>1, SmallMod
    <3> QED
      BY <2>1, <3>1, <3>2 DEF PrevRank
  <2>2. CASE r # 0
    <3>1. r - 1 \in Nat /\ r - 1 < WorldSize
      BY <1>1, <2>2
    <3>2. ((r - 1) + WorldSize) % WorldSize = r - 1
      BY <1>1, <3>1, SmallMod
    <3> QED
      BY <2>2, <3>2 DEF PrevRank
  <2> QED
    BY <2>1, <2>2
<1> QED
  BY <1>2, <1>3

LEMMA RingFacts ==
    ASSUME NEW r \in Ranks
    PROVE  /\ NextRank(r) \in Ranks /\ PrevRank(r) \in Ranks
           /\ NextRank(r) # r /\ PrevRank(r) # r
           /\ NextRank(PrevRank(r)) = r /\ PrevRank(NextRank(r)) = r
<1>1. WorldSize \in Nat /\ WorldSize >= 2 /\ r \in Nat /\ r < WorldSize
  BY BootstrapAssumption DEF Ranks
<1>2. NextRank(r) \in Ranks /\ PrevRank(r) \in Ranks
  BY NeighboursAreRanks
<1>3. NextRank(r) # r /\ PrevRank(r) # r
  BY <1>1, RankArithmetic
<1>4. NextRank(PrevRank(r)) = r
  BY <1>1, <1>2, RankArithmetic
<1>5. PrevRank(NextRank(r)) = r
  BY <1>1, <1>2, RankArithmetic
<1> QED
  BY <1>2, <1>3, <1>4, <1>5

\* A socket of a rank and the socket at its other end.
LEMMA LinkFacts ==
    ASSUME NEW r \in Ranks, NEW s \in Sockets
    PROVE  /\ Neighbour(r, s) \in Ranks /\ Neighbour(r, s) # r
           /\ Other(s) \in Sockets /\ Other(Other(s)) = s /\ Other(s) # s
           /\ Neighbour(Neighbour(r, s), Other(s)) = r
BY RingFacts DEF Neighbour, Other, Sockets

LEMMA NoRankIsNone == \A r \in Ranks : r # NoRank
BY BootstrapAssumption DEF Ranks, NoRank

-----------------------------------------------------------------------------
(* Steps that move nothing in the sockets.                                   *)

\* A rank that reads a stream without a step of its writer.
LEMMA ReaderKeeps ==
    ASSUME NEW r \in Ranks, NEW s \in Sockets, StreamInv(r, s),
           LET p == Neighbour(r, s) IN stage'[p] = stage[p] /\ dest'[p] = dest[p],
           Known(r)' => /\ Known(r)
                        /\ inbox'[r][s] = inbox[r][s]
                        /\ Reads(r, s)' = Reads(r, s)
                        /\ Attached(r, s)' => Attached(r, s)
    PROVE  StreamInv(r, s)'
<1> DEFINE p == Neighbour(r, s)
<1>1. Active(p)' = Active(p) /\ Writes(p, Other(s))' = Writes(p, Other(s))
  BY DEF Active, Writes
<1> QED
  BY <1>1 DEF StreamInv

\* A rank that has written a stream without a step of its reader.
LEMMA WriterKeeps ==
    ASSUME NEW a \in Ranks, NEW t \in Sockets, StreamInv(Neighbour(a, t), Other(t)),
           LET q == Neighbour(a, t) IN
               /\ stage'[q] = stage[q] /\ status'[q] = status[q]
               /\ inbox'[q][Other(t)] = inbox[q][Other(t)]
               /\ Attached(q, Other(t))' => Attached(q, Other(t))
               /\ Active(a)' /\ Attached(q, Other(t)) =>
                      Active(a) /\ Writes(a, t)' = Writes(a, t),
           dest[a] = Right(a) => dest'[a] = Right(a)
    PROVE  StreamInv(Neighbour(a, t), Other(t))'
<1> DEFINE q == Neighbour(a, t)
           s == Other(t)
<1>1. q \in Ranks /\ s \in Sockets /\ Neighbour(q, s) = a /\ Other(s) = t
  BY LinkFacts
<1>2. Known(q)' = Known(q) /\ Reads(q, s)' = Reads(q, s)
  BY DEF Known, Active, Reads
<1> HIDE DEF q, s
<1>3. StreamInv(q, s)
  BY DEF q, s
<1>4. StreamInv(q, s)'
  BY <1>1, <1>2, <1>3 DEF StreamInv, q, s
<1> QED
  BY <1>4 DEF q, s

\* What a step of rank a leaves alone at the others.
OthersStay(a) ==
    \A p \in Ranks \ {a} :
        /\ stage'[p] = stage[p] /\ status'[p] = status[p] /\ live'[p] = live[p]
        /\ dest'[p] = dest[p]

\* Two ranks other than a have a socket between them.
BystandersStay(a) ==
    \A r \in Ranks \ {a}, s \in Sockets : Neighbour(r, s) # a =>
        inbox'[r][s] = inbox[r][s] /\ (Attached(r, s)' => Attached(r, s))

LEMMA StreamsByRank ==
    ASSUME Streams, NEW a \in Ranks, OthersStay(a), BystandersStay(a),
           \A s \in Sockets : StreamInv(a, s)',
           \A t \in Sockets : StreamInv(Neighbour(a, t), Other(t))'
    PROVE  Streams'
<1> SUFFICES ASSUME NEW r \in Ranks, NEW s \in Sockets PROVE StreamInv(r, s)'
  BY DEF Streams
<1>1. CASE r = a
  BY <1>1
<1>2. CASE Neighbour(r, s) = a
  <2>1. Neighbour(a, Other(s)) = r /\ Other(Other(s)) = s /\ Other(s) \in Sockets
    BY <1>2, LinkFacts
  <2>2. StreamInv(Neighbour(a, Other(s)), Other(Other(s)))'
    BY <2>1
  <2> QED
    BY <2>1, <2>2
<1>3. CASE r # a /\ Neighbour(r, s) # a
  <2>1. StreamInv(r, s) /\ Neighbour(r, s) \in Ranks \ {a}
    BY <1>3, LinkFacts DEF Streams
  <2>2. Known(r)' = Known(r) /\ Reads(r, s)' = Reads(r, s)
    BY <1>3 DEF OthersStay, Known, Active, Reads
  <2> QED
    BY <1>3, <2>1, <2>2, ReaderKeeps DEF OthersStay, BystandersStay
<1> QED
  BY <1>1, <1>2, <1>3

\* A step of rank a that neither reads nor writes, nor connects.
Quiet(a) ==
    /\ OthersStay(a)
    /\ \A p \in Ranks \ {a} : inbox'[p] = inbox[p] /\ backlog'[p] = backlog[p]
    /\ \A s \in Sockets : Known(a)' =>
          /\ Known(a)
          /\ inbox'[a][s] = inbox[a][s]
          /\ Reads(a, s)' = Reads(a, s)
          /\ Attached(a, s)' => Attached(a, s)
    /\ \A t \in Sockets : Active(a)' /\ Attached(Neighbour(a, t), Other(t)) =>
          Active(a) /\ Writes(a, t)' = Writes(a, t)
    /\ dest[a] = Right(a) => dest'[a] = Right(a)

LEMMA QuietStreams ==
    ASSUME Streams, NEW a \in Ranks, Quiet(a)
    PROVE  Streams'
<1>1. \A q \in Ranks \ {a}, s \in Sockets : Attached(q, s)' => Attached(q, s)
  BY DEF Quiet, OthersStay, Attached
<1>2. OthersStay(a) /\ BystandersStay(a)
  BY <1>1 DEF Quiet, BystandersStay
<1>3. ASSUME NEW s \in Sockets PROVE StreamInv(a, s)'
  <2>1. StreamInv(a, s) /\ Neighbour(a, s) \in Ranks \ {a}
    BY LinkFacts DEF Streams
  <2> QED
    BY <1>2, <2>1, ReaderKeeps DEF Quiet, OthersStay
<1>4. ASSUME NEW t \in Sockets PROVE StreamInv(Neighbour(a, t), Other(t))'
  <2>1. /\ Neighbour(a, t) \in Ranks \ {a} /\ Other(t) \in Sockets
        /\ StreamInv(Neighbour(a, t), Other(t))
    BY LinkFacts DEF Streams
  <2> QED
    BY <1>1, <1>2, <2>1, WriterKeeps DEF Quiet, OthersStay
<1> QED
  BY <1>2, <1>3, <1>4, StreamsByRank

-----------------------------------------------------------------------------
(* What a step of a rank leaves alone.                                       *)

RankStep(r) == Run(r) \/ GiveUp(r) \/ Announce(r) \/ Close(r) \/ Crash(r)

LEMMA StatusNames ==
    /\ PG_SUCCESS \notin Errors /\ Pending # PG_SUCCESS
    /\ PG_ERR_TRANSPORT \in Errors /\ PG_ERR_INVALID_ARGUMENT \in Errors
    /\ PG_ERR_NO_MEMORY \in Errors
BY DEF Errors, PG_SUCCESS, Pending, PG_ERR_TRANSPORT, PG_ERR_INVALID_ARGUMENT,
       PG_ERR_NO_MEMORY

LEMMA StepOwned ==
    ASSUME TypeOK, OwnershipInv, NEW r \in Ranks, RankStep(r)
    PROVE  OthersKeep(r)
<1>1. ControlTypes /\ OwnershipTypes /\ OwnedAt(r)
  BY TypeParts DEF OwnershipInv
<1> QED
  BY <1>1, DeviceStepOwned, RingStepOwned, ExchangeStepOwned, HandleStepOwned
     DEF RankStep, Run

LEMMA FailStatus ==
    ASSUME TypeOK, NEW r \in Ranks, NEW error, NEW cleanup, Fail(r, error, cleanup)
    PROVE  status'[r] = error /\ \A p \in Ranks \ {r} : status'[p] = status[p]
BY DEF TypeOK, Fail

LEMMA StepStatus ==
    ASSUME TypeOK, NEW r \in Ranks, RankStep(r)
    PROVE  \A p \in Ranks \ {r} : status'[p] = status[p]
<1>1. CASE UNCHANGED status
  BY <1>1
<1>2. CASE \E error, cleanup : Fail(r, error, cleanup)
  BY <1>2, FailStatus
<1>3. CASE status' = [status EXCEPT ![r] = PG_SUCCESS]
  BY <1>3 DEF TypeOK
<1> HIDE DEF Fail
<1>4. ASSUME NEW first, NEW sockets, LeaveSocketCall(r, first, sockets)
      PROVE  UNCHANGED status \/ \E error, cleanup : Fail(r, error, cleanup)
  BY <1>4 DEF LeaveSocketCall, Goto
<1>5. ASSUME NEW socket, NEW message, NEW next, Write(r, socket, message, next)
      PROVE  UNCHANGED status \/ \E error, cleanup : Fail(r, error, cleanup)
  BY <1>5 DEF Write, Goto, Dies
<1>6. CASE CheckArguments(r) \/ GetDeviceList(r) \/ OpenDevice(r) \/ AllocPd(r) \/ QueryPort(r)
  BY <1>1, <1>2, <1>6 DEF CheckArguments, GetDeviceList, OpenDevice, AllocPd, QueryPort, Goto
<1>7. CASE CreateTransport(r) \/ CreateQps(r)
  BY <1>1, <1>2, <1>7 DEF CreateTransport, CreateQps, Goto
<1>8. CASE Connect(r) \/ GiveUp(r)
  BY <1>1, <1>2, <1>4, <1>8 DEF Connect, GiveUp
<1>9. CASE Listen(r) \/ Accept(r)
  BY <1>1, <1>2, <1>4, <1>9 DEF Listen, Accept, Goto
<1>10. CASE WriteRecord(r) \/ WriteReady(r)
  BY <1>1, <1>2, <1>5, <1>10 DEF WriteRecord, WriteReady
<1>11. CASE ReadRecord(r) \/ ReadReady(r)
  BY <1>1, <1>2, <1>11 DEF ReadRecord, ReadReady, ReadFails, Goto
<1>12. CASE TransitionToRts(r) \/ Configure(r)
  BY <1>1, <1>2, <1>12 DEF TransitionToRts, Configure, Goto
<1>13. CASE CreateHandle(r)
  BY <1>2, <1>3, <1>13 DEF CreateHandle
<1>14. CASE Free(r) \/ Return(r) \/ Announce(r) \/ Close(r) \/ Crash(r)
  BY <1>1, <1>14 DEF Free, Return, Announce, Close, Crash, Goto, Dies
<1> QED
  BY <1>6, <1>7, <1>8, <1>9, <1>10, <1>11, <1>12, <1>13, <1>14 DEF RankStep, Run

LEMMA StepDest ==
    ASSUME TypeOK, NEW r \in Ranks, RankStep(r)
    PROVE  \A p \in Ranks \ {r} : dest'[p] = dest[p] /\ remote'[p] = remote[p]
<1>1. CASE TransitionToRts(r)
  BY <1>1 DEF TransitionToRts, TypeOK
<1>2. CASE ReadRecord(r)
  BY <1>2 DEF ReadRecord, ReadFails, TypeOK
<1>3. CASE ~TransitionToRts(r) /\ ~ReadRecord(r)
  <2>1. UNCHANGED <<dest, remote>>
    BY <1>3 DEF RankStep, Run, links_vars, CheckArguments, GetDeviceList, OpenDevice, AllocPd, QueryPort,
         CreateTransport, CreateQps, Connect, GiveUp, Listen, Accept, WriteRecord,
         WriteReady, ReadReady, ReadFails, Configure, CreateHandle, Free, Return,
         Announce, Close, Crash
  <2> QED
    BY <2>1
<1> QED
  BY <1>1, <1>2, <1>3

LEMMA StepOthers ==
    ASSUME TypeOK, OwnershipInv, NEW r \in Ranks, RankStep(r)
    PROVE  OthersStay(r)
BY StepOwned, StepStatus, StepDest DEF OthersKeep, OthersStay

-----------------------------------------------------------------------------
(* The quiet steps.                                                          *)

Still(a) ==
    /\ OthersStay(a)
    /\ \A p \in Ranks \ {a} : inbox'[p] = inbox[p] /\ backlog'[p] = backlog[p]

\* Rank a fails.
LEMMA QuietFails ==
    ASSUME NEW a \in Ranks, Still(a), stage'[a] \in {"freeing"} \cup Gone,
           status'[a] # PG_SUCCESS, dest[a] = Right(a) => dest'[a] = Right(a)
    PROVE  Quiet(a)
<1>1. ~Active(a)' /\ ~Known(a)'
  BY DEF Known, Active
<1> QED
  BY <1>1 DEF Quiet, Still

\* Rank a, its call through, is on its way out or goes.
LEMMA QuietLeaves ==
    ASSUME NEW a \in Ranks, Still(a), stage'[a] \in {"freeing"} \cup Gone,
           status[a] = PG_SUCCESS, status'[a] = PG_SUCCESS, live'[a] \subseteq live[a],
           inbox'[a] = inbox[a], dest'[a] = dest[a]
    PROVE  Quiet(a)
<1>1. ~Active(a)' /\ Known(a)
  BY DEF Known, Active
<1>2. \A s \in Sockets : Reads(a, s)' = Reads(a, s)
  BY DEF Reads
<1>3. \A s \in Sockets : Attached(a, s)' => Attached(a, s)
  BY DEF Attached, Gone
<1>4. (dest[a] = Right(a) => dest'[a] = Right(a)) /\ (\A s \in Sockets : inbox'[a][s] = inbox[a][s])
  OBVIOUS
<1> QED
  BY <1>1, <1>2, <1>3, <1>4 DEF Quiet, Still

EarlyStages == Before \cup Meeting \cup {"writeNext"}

\* Nothing has been read or written yet.
LEMMA EarlyCounts ==
    ASSUME NEW a, stage[a] \in EarlyStages, status[a] # PG_SUCCESS
    PROVE  /\ Active(a) /\ Known(a)
           /\ \A s \in Sockets : Reads(a, s) = 0 /\ Writes(a, s) = 0
<1>1. Active(a)
  BY DEF EarlyStages, Before, Meeting, Active, Gone
<1>2. /\ stage[a] \notin AfterTransition \cup Finishing \cup InUse
      /\ stage[a] \notin {"transition", "readPrevious", "awaitNext", "awaitPrevious",
                          "readNext", "writePrevious", "readyPrevious", "running"}
  BY DEF EarlyStages, Before, Meeting, AfterTransition, Finishing, InUse
<1>3. \A s \in Sockets : /\ stage[a] \notin ReadOnce(s) /\ stage[a] \notin ReadTwice(s)
                         /\ stage[a] \notin WrittenOnce(s) /\ stage[a] \notin WrittenTwice(s)
  BY <1>2 DEF ReadOnce, ReadTwice, WrittenOnce, WrittenTwice
<1> QED
  BY <1>1, <1>2, <1>3 DEF Known, Reads, Writes, ReadAt, WrittenAt

\* Rank a goes on before the exchange, or gives up.
LEMMA QuietEarly ==
    ASSUME NEW a \in Ranks, Still(a), stage[a] \in EarlyStages,
           status[a] # PG_SUCCESS, UNCHANGED <<inbox, dest>>,
           \/ stage'[a] \in EarlyStages /\ status'[a] = status[a]
           \/ stage'[a] = "freeing" /\ status'[a] \in Errors,
           \A s \in Sockets : Attached(a, s)' => Attached(a, s)
    PROVE  Quiet(a)
<1>1. CASE stage'[a] = "freeing" /\ status'[a] \in Errors
  BY <1>1, QuietFails, StatusNames
<1>2. CASE stage'[a] \in EarlyStages /\ status'[a] = status[a]
  <2>1. /\ Active(a) /\ Known(a)
        /\ \A s \in Sockets : Reads(a, s) = 0 /\ Writes(a, s) = 0
    BY EarlyCounts
  <2>2. (/\ Active(a) /\ Known(a)
         /\ \A s \in Sockets : Reads(a, s) = 0 /\ Writes(a, s) = 0)'
    <3>1. stage'[a] \in EarlyStages' /\ status'[a] # PG_SUCCESS'
      BY <1>2 DEF EarlyStages, Before, Meeting
    <3>2. /\ stage'[a] \notin AfterTransition \cup Finishing \cup InUse
          /\ stage'[a] \notin {"transition", "readPrevious", "awaitNext", "awaitPrevious",
                          "readNext", "writePrevious", "readyPrevious", "running",
                          "freeing"} \cup Gone
      BY <3>1 DEF EarlyStages, Before, Meeting, AfterTransition, Finishing, InUse, Gone
    <3>3. \A s \in Sockets :
              /\ stage'[a] \notin ReadOnce(s) /\ stage'[a] \notin ReadTwice(s)
              /\ stage'[a] \notin WrittenOnce(s) /\ stage'[a] \notin WrittenTwice(s)
      BY <3>2 DEF ReadOnce, ReadTwice, WrittenOnce, WrittenTwice
    <3> QED
      BY <3>1, <3>2, <3>3 DEF Active, Known, Reads, Writes, ReadAt, WrittenAt
  <2>3. /\ \A s \in Sockets : /\ Known(a) /\ inbox'[a][s] = inbox[a][s]
                              /\ Reads(a, s)' = Reads(a, s)
                              /\ Attached(a, s)' => Attached(a, s)
        /\ \A t \in Sockets : Active(a) /\ Writes(a, t)' = Writes(a, t)
    BY <2>1, <2>2
  <2> QED
    BY <2>3 DEF Quiet, Still
<1> QED
  BY <1>1, <1>2

\* A stage without reading or writing of its own.
LEMMA QuietSame ==
    ASSUME NEW a \in Ranks, Still(a),
           \/ stage[a] = "transition" /\ stage'[a] = "readyNext"
           \/ stage[a] = "configure" /\ stage'[a] = "create"
           \/ stage[a] = "create" /\ stage'[a] = "connected",
           status[a] # PG_SUCCESS,
           stage'[a] # "connected" => status'[a] = status[a],
           stage'[a] = "connected" => status'[a] = PG_SUCCESS,
           live'[a] \cap Sockets = live[a] \cap Sockets,
           inbox'[a] = inbox[a], dest[a] = Right(a) => dest'[a] = Right(a)
    PROVE  Quiet(a)
<1>2. Active(a)
  BY DEF Active, Gone
<1>3. \A s \in Sockets : Attached(a, s)' => Attached(a, s)
  BY DEF Attached
<1>4. \A s \in Sockets : Reads(a, s)' = Reads(a, s)
  BY DEF Reads, ReadAt, ReadOnce, ReadTwice, AfterTransition, Finishing, InUse
<1>5. \A s \in Sockets : Writes(a, s)' = Writes(a, s)
  BY DEF Writes, WrittenAt, WrittenOnce, WrittenTwice, AfterTransition, Finishing, InUse
<1>6. \A s \in Sockets : inbox'[a][s] = inbox[a][s]
  OBVIOUS
<1> QED
  BY <1>2, <1>3, <1>4, <1>5, <1>6 DEF Quiet, Still, Known

LEMMA LeaveEffect ==
    ASSUME TypeOK, NEW r \in Ranks, NEW first, NEW sockets, LeaveSocketCall(r, first, sockets)
    PROVE  \/ stage'[r] \in {"listen", "connect", "writeNext"} /\ status'[r] = status[r]
           \/ stage'[r] = "freeing" /\ status'[r] \in Errors
<1>1. ControlTypes
  BY TypeParts
<1>2. CASE \E error \in Errors : \E cleanup : Fail(r, error, cleanup)
  BY <1>1, <1>2, FailEffect, FailStatus
<1>3. CASE \E next \in {"listen", "connect", "writeNext"} : Goto(r, next)
  <2>1. stage'[r] \in {"listen", "connect", "writeNext"}
    BY <1>1, <1>3, GotoEffect
  <2>2. status' = status
    BY <1>3 DEF Goto
  <2> QED
    BY <2>1, <2>2
<1> QED
  BY <1>2, <1>3, StatusNames DEF LeaveSocketCall

\* A rank whose call has not come through yet.
LEMMA EarlyStatus ==
    ASSUME NEW r \in Ranks, ProgressInv(r), stage[r] \notin {"freeing"} \cup InUse \cup Gone
    PROVE  status[r] # PG_SUCCESS
BY DEF ProgressInv

\* Up to its queue pairs a rank obtains no socket and gives none back.
LEMMA DeviceSockets ==
    ASSUME OwnershipTypes, NEW a \in Ranks,
           \/ CheckArguments(a) \/ GetDeviceList(a) \/ OpenDevice(a) \/ AllocPd(a) \/ QueryPort(a)
           \/ CreateTransport(a) \/ CreateQps(a)
    PROVE  live'[a] \cap Sockets = live[a] \cap Sockets
<1>1. CASE CheckArguments(a) \/ QueryPort(a)
  BY <1>1 DEF CheckArguments, QueryPort
<1>2. CASE OpenDevice(a)
  <2>1. live'[a] = live[a] \/ live'[a] = (live[a] \ {"device_list"}) \cup {"context"}
    BY <1>2 DEF OpenDevice, OwnershipTypes
  <2> QED
    BY <2>1 DEF Sockets
<1>3. CASE GetDeviceList(a) \/ AllocPd(a) \/ CreateTransport(a) \/ CreateQps(a)
  <2> DEFINE News == {{"device_list"}, {"empty_list"}, {"pd"}, {"cq"}, QueuePairs, {},
                      {"qp_next"}, {"qp_prev"}}
  <2>1. UNCHANGED live \/ \E new \in News : Own(a, new)
    BY <1>3 DEF GetDeviceList, AllocPd, CreateTransport, CreateQps
  <2>2. \A new \in News : new \cap Sockets = {}
    BY DEF Sockets, QueuePairs
  <2> QED
    BY <2>1, <2>2, OwnEffect
<1> QED
  BY <1>1, <1>2, <1>3

LEMMA DeviceQuiet ==
    ASSUME TypeOK, OwnershipInv, BarrierInv, NEW a \in Ranks,
           \/ CheckArguments(a) \/ GetDeviceList(a) \/ OpenDevice(a) \/ AllocPd(a) \/ QueryPort(a)
           \/ CreateTransport(a) \/ CreateQps(a)
    PROVE  Quiet(a)
<1>1. ControlTypes /\ OwnershipTypes
  BY TypeParts
<1>2. RankStep(a)
  BY DEF RankStep, Run
<1>3. stage[a] \in Before
  BY DEF Before, CheckArguments, GetDeviceList, OpenDevice, AllocPd, QueryPort,
         CreateTransport, CreateQps
<1>4. stage[a] \in EarlyStages /\ status[a] # PG_SUCCESS
  BY <1>3, EarlyStatus DEF EarlyStages, Before, InUse, Gone, BarrierInv, Progress
<1>5. UNCHANGED links_vars
  BY DEF CheckArguments, GetDeviceList, OpenDevice, AllocPd, QueryPort, CreateTransport, CreateQps
<1>6. Still(a) /\ UNCHANGED <<inbox, dest, backlog>>
  BY <1>2, <1>5, StepOthers DEF Still, links_vars
<1>7. \/ \E next \in {"device", "open", "pd", "port", "transport", "qps", "connect", "listen"} :
             Goto(a, next)
      \/ \E error \in Errors : \E cleanup : Fail(a, error, cleanup)
  BY StatusNames DEF CheckArguments, GetDeviceList, OpenDevice, AllocPd, QueryPort,
                     CreateTransport, CreateQps
<1>8. \/ stage'[a] \in EarlyStages /\ status'[a] = status[a] /\ stage'[a] # "accept"
      \/ stage'[a] = "freeing" /\ status'[a] \in Errors
  <2>1. CASE \E error \in Errors : \E cleanup : Fail(a, error, cleanup)
    BY <1>1, <2>1, FailEffect, FailStatus
  <2>2. CASE \E next \in {"device", "open", "pd", "port", "transport", "qps", "connect", "listen"} :
                 Goto(a, next)
    <3>1. stage'[a] \in {"device", "open", "pd", "port", "transport", "qps", "connect", "listen"}
      BY <1>1, <2>2, GotoEffect
    <3>2. status' = status
      BY <2>2 DEF Goto
    <3> QED
      BY <3>1, <3>2 DEF EarlyStages, Before, Meeting
  <2> QED
    BY <1>7, <2>1, <2>2
<1>9. live'[a] \cap Sockets = live[a] \cap Sockets
  BY <1>1, DeviceSockets
<1>10. \A s \in Sockets : Attached(a, s)' => Attached(a, s)
  BY <1>8, <1>9 DEF Attached
<1> QED
  BY <1>4, <1>6, <1>8, <1>10, QuietEarly

LEMMA MeetingQuiet ==
    ASSUME TypeOK, OwnershipInv, BarrierInv, NEW a \in Ranks,
           GiveUp(a) \/ Listen(a) \/ Accept(a)
    PROVE  Quiet(a)
<1>1. ControlTypes /\ OwnershipTypes /\ backlog \in [Ranks -> Ranks \cup {NoRank}]
  BY TypeParts DEF LinkTypes
<1>2. RankStep(a)
  BY DEF RankStep, Run
<1>3. stage[a] \in Meeting
  BY DEF Meeting, GiveUp, Listen, Accept
<1>4. stage[a] \in EarlyStages /\ status[a] # PG_SUCCESS
  BY <1>3, EarlyStatus DEF EarlyStages, Meeting, InUse, Gone, BarrierInv, Progress
<1>5. Still(a) /\ UNCHANGED <<inbox, dest>>
  BY <1>1, <1>2, StepOthers DEF Still, links_vars, GiveUp, Listen, Accept
<1>6. CASE GiveUp(a)
  <2>1. \/ stage'[a] \in {"listen", "connect", "writeNext"} /\ status'[a] = status[a]
        \/ stage'[a] = "freeing" /\ status'[a] \in Errors
    BY <1>6, LeaveEffect DEF GiveUp
  <2>2. \A s \in Sockets : Attached(a, s)' => Attached(a, s)
    BY <1>6, <2>1 DEF GiveUp, Attached
  <2>3. \/ stage'[a] \in EarlyStages /\ status'[a] = status[a]
        \/ stage'[a] = "freeing" /\ status'[a] \in Errors
    BY <2>1 DEF EarlyStages, Meeting
  <2> QED
    BY <1>4, <1>5, <2>2, <2>3, QuietEarly
<1>7. CASE Listen(a)
  <2>1. \/ stage'[a] \in {"listen", "connect", "writeNext", "accept"} /\ status'[a] = status[a]
        \/ stage'[a] = "freeing" /\ status'[a] \in Errors
    <3>1. CASE Goto(a, "accept")
      <4>1. stage'[a] = "accept"
        BY <1>1, <3>1, GotoEffect
      <4> QED
        BY <3>1, <4>1 DEF Goto
    <3>2. CASE LeaveSocketCall(a, ~ConnectsFirst(a), live[a] \cap Sockets)
      BY <3>2, LeaveEffect
    <3> QED
      BY <1>7, <3>1, <3>2 DEF Listen
  <2>2. backlog'[a] = NoRank /\ UNCHANGED live
    BY <1>7 DEF Listen, links_vars, BarrierInv, Peers, PeersInv, Active, Gone
  <2>3. \A s \in Sockets : Attached(a, s)' => Attached(a, s)
    BY <2>2 DEF Attached, NoRank
  <2>4. \/ stage'[a] \in EarlyStages /\ status'[a] = status[a]
        \/ stage'[a] = "freeing" /\ status'[a] \in Errors
    BY <2>1 DEF EarlyStages, Meeting
  <2> QED
    BY <1>4, <1>5, <2>3, <2>4, QuietEarly
<1>8. CASE Accept(a)
  <2>1. \E first, sockets : LeaveSocketCall(a, first, sockets)
    BY <1>8 DEF Accept
  <2>2. \/ stage'[a] \in {"listen", "connect", "writeNext"} /\ status'[a] = status[a]
        \/ stage'[a] = "freeing" /\ status'[a] \in Errors
    BY <2>1, LeaveEffect
  <2>3. \/ UNCHANGED live
        \/ backlog[a] # NoRank /\ live'[a] = live[a] \cup {"previous_socket"}
    BY <1>1, <1>8, OwnEffect DEF Accept
  <2>4. \A s \in Sockets : Attached(a, s)' => Attached(a, s)
    BY <1>8, <2>2, <2>3 DEF Attached, Accept
  <2>5. \/ stage'[a] \in EarlyStages /\ status'[a] = status[a]
        \/ stage'[a] = "freeing" /\ status'[a] \in Errors
    BY <2>2 DEF EarlyStages, Meeting
  <2> QED
    BY <1>4, <1>5, <2>4, <2>5, QuietEarly
<1> QED
  BY <1>6, <1>7, <1>8

\* The transition to RTS, the handle and its end.
LEMMA HandleQuiet ==
    ASSUME TypeOK, OwnershipInv, BarrierInv, NEW a \in Ranks,
           \/ TransitionToRts(a) \/ Configure(a) \/ CreateHandle(a)
           \/ Close(a) \/ Free(a) \/ Return(a) \/ Crash(a)
    PROVE  Quiet(a)
<1>1. ControlTypes /\ OwnershipTypes
  BY TypeParts
<1>2. RankStep(a)
  BY DEF RankStep, Run
<1>3. Still(a) /\ UNCHANGED inbox
  BY <1>2, StepOthers DEF Still, links_vars, TransitionToRts, Configure, CreateHandle, Close,
                          Free, Return, Crash
<1>4. ProgressInv(a)
  BY DEF BarrierInv, Progress
<1>5. ASSUME NEW error \in Errors, NEW cleanup, Fail(a, error, cleanup),
             dest[a] = Right(a) => dest'[a] = Right(a)
      PROVE  Quiet(a)
  BY <1>1, <1>3, <1>5, FailEffect, FailStatus, StatusNames, QuietFails
<1>6. CASE TransitionToRts(a)
  <2>1. status[a] # PG_SUCCESS /\ stage[a] = "transition" /\ UNCHANGED live
    BY <1>4, <1>6 DEF TransitionToRts, ProgressInv, InUse, Gone
  <2>2. /\ remote[a].next_socket = <<NextRank(a), "qp_prev">>
        /\ remote[a].previous_socket = <<PrevRank(a), "qp_next">>
    BY <1>4, <2>1 DEF ProgressInv
  <2>3. CASE /\ dest' = [dest EXCEPT ![a] = [qp_next |-> remote[a].next_socket,
                                            qp_prev |-> remote[a].previous_socket]]
             /\ Goto(a, "readyNext")
    <3>1. dest'[a] = Right(a)
      BY <2>2, <2>3 DEF Right, TypeOK
    <3>2. stage'[a] = "readyNext" /\ status' = status
      BY <1>1, <2>3, GotoEffect DEF Goto
    <3>3. /\ status'[a] = status[a] /\ inbox'[a] = inbox[a]
          /\ live'[a] \cap Sockets = live[a] \cap Sockets
          /\ dest[a] = Right(a) => dest'[a] = Right(a)
      BY <1>3, <2>1, <3>1, <3>2
    <3>4. Still(a)
      BY <1>3
    <3> QED
      BY <2>1, <3>2, <3>3, <3>4, QuietSame
  <2>4. CASE /\ Fail(a, PG_ERR_TRANSPORT, CloseSockets(Sockets) \o Destructor(members[a]))
             /\ UNCHANGED dest \/ dest' = [dest EXCEPT ![a].qp_next = remote[a].next_socket]
    <3>1. dest[a] = Right(a) => dest'[a] = Right(a)
      <4>1. dest \in [Ranks -> [QueuePairs -> Qps \cup {NoQp}]]
        BY DEF TypeOK
      <4>2. \/ dest'[a] = dest[a]
            \/ dest'[a] = [dest[a] EXCEPT !.qp_next = remote[a].next_socket]
        BY <2>4, <4>1
      <4>3. [Right(a) EXCEPT !.qp_next = <<NextRank(a), "qp_prev">>] = Right(a)
        BY DEF Right
      <4> QED
        BY <2>2, <4>2, <4>3
    <3> QED
      BY <1>5, <2>4, <3>1, StatusNames
  <2> QED
    BY <1>6, <2>3, <2>4 DEF TransitionToRts
<1>7. CASE Configure(a)
  <2>1. status[a] # PG_SUCCESS /\ stage[a] = "configure" /\ UNCHANGED <<live, dest>>
    BY <1>4, <1>7 DEF Configure, ProgressInv, InUse, Gone, links_vars
  <2>2. CASE Goto(a, "create")
    <3>1. stage'[a] = "create" /\ status' = status
      BY <1>1, <2>2, GotoEffect DEF Goto
    <3>2. /\ status'[a] = status[a] /\ inbox'[a] = inbox[a]
          /\ live'[a] \cap Sockets = live[a] \cap Sockets
          /\ dest[a] = Right(a) => dest'[a] = Right(a)
      BY <1>3, <2>1, <3>1
    <3>3. Still(a)
      BY <1>3
    <3> QED
      BY <2>1, <3>1, <3>2, <3>3, QuietSame
  <2> QED
    BY <1>5, <1>7, <2>1, <2>2, StatusNames DEF Configure
<1>8. CASE CreateHandle(a)
  <2>1. status[a] # PG_SUCCESS /\ stage[a] = "create" /\ UNCHANGED dest
    BY <1>4, <1>8 DEF CreateHandle, ProgressInv, InUse, Gone, links_vars
  <2>2. CASE /\ stage'  = [stage EXCEPT ![a] = "connected"]
             /\ status' = [status EXCEPT ![a] = PG_SUCCESS]
             /\ Own(a, {"handle", "collectives"})
    <3>1. stage'[a] = "connected" /\ status'[a] = PG_SUCCESS
      BY <1>1, <2>2 DEF ControlTypes
    <3>2. live'[a] \cap Sockets = live[a] \cap Sockets
      BY <1>1, <2>2, OwnEffect DEF Sockets
    <3> QED
      BY <1>3, <2>1, <3>1, <3>2, QuietSame
  <2> QED
    BY <1>5, <1>8, <2>1, <2>2, StatusNames DEF CreateHandle
<1>9. CASE Close(a) \/ Free(a) \/ Return(a) \/ Crash(a)
  <2>1. stage'[a] \in {"freeing"} \cup Gone /\ UNCHANGED <<status, dest>>
    BY <1>1, <1>9, GotoEffect
       DEF Close, Free, Return, Crash, Dies, Goto, links_vars, Gone, ControlTypes
  <2>2. CASE status[a] = PG_SUCCESS
    <3>1. live'[a] \subseteq live[a]
      BY <1>1, <1>9 DEF Close, Free, Return, Crash, Dies, OwnershipTypes
    <3> QED
      BY <1>3, <2>1, <2>2, <3>1, QuietLeaves
  <2>3. CASE status[a] # PG_SUCCESS
    BY <1>3, <2>1, <2>3, QuietFails
  <2> QED
    BY <2>2, <2>3
<1> QED
  BY <1>6, <1>7, <1>8, <1>9

-----------------------------------------------------------------------------
(* Connecting, writing and reading.                                          *)

\* The port is the next rank's alone.
LEMMA PortOfNext ==
    ASSUME NEW r \in Ranks, NEW d \in Ranks, base_port + r = base_port + PrevRank(d)
    PROVE  d = NextRank(r)
<1>1. base_port \in Nat /\ r \in Int /\ PrevRank(d) \in Int
  <2>1. PrevRank(d) \in Ranks
    BY RingFacts
  <2> QED
    BY <2>1, BootstrapAssumption DEF Ranks
<1> DEFINE prev == PrevRank(d)
<1>2. base_port \in Nat /\ r \in Int /\ prev \in Int /\ base_port + r = base_port + prev
  BY <1>1
<1> HIDE DEF prev
<1>3. prev = r
  BY <1>2
<1> QED
  BY <1>3, RingFacts DEF prev

LEMMA ConnectStreams ==
    ASSUME TypeOK, OwnershipInv, BarrierInv, NEW a \in Ranks, Connect(a)
    PROVE  Streams'
<1> DEFINE d == NextRank(a)
<1>1. ControlTypes /\ OwnershipTypes /\ backlog \in [Ranks -> Ranks \cup {NoRank}]
  BY TypeParts DEF LinkTypes
<1>2. /\ stage[a] = "connect" /\ stage[d] = "accept" /\ d \in Ranks /\ d # a
      /\ backlog' = [backlog EXCEPT ![d] = a]
      /\ UNCHANGED <<inbox, dest>>
      /\ Own(a, {"next_socket"})
  <2>1. PICK e \in Ranks :
            /\ stage[a] = "connect" /\ stage[e] = "accept"
            /\ base_port + a = base_port + PrevRank(e)
            /\ backlog' = [backlog EXCEPT ![e] = a]
            /\ UNCHANGED <<inbox, dest>>
            /\ Own(a, {"next_socket"})
    BY DEF Connect
  <2>2. e = d
    BY <2>1, PortOfNext
  <2>3. d # a
    BY RingFacts
  <2> QED
    BY <2>1, <2>2, <2>3
<1>3. OthersStay(a)
  BY StepOthers DEF RankStep, Run
<1>4. \/ stage'[a] \in {"listen", "connect", "writeNext"} /\ status'[a] = status[a]
      \/ stage'[a] = "freeing" /\ status'[a] \in Errors
  <2>1. \E first, sockets : LeaveSocketCall(a, first, sockets)
    BY DEF Connect
  <2> QED
    BY <2>1, LeaveEffect
<1>5. live'[a] = live[a] \cup {"next_socket"}
  BY <1>1, <1>2, OwnEffect
<1>6. inbox[a]["next_socket"] = <<>> /\ inbox[d]["previous_socket"] = <<>>
  <2>1. PeersInv(a)
    BY DEF BarrierInv, Peers
  <2>2. peer[a].next_socket = NoRank
    BY <1>2, <2>1 DEF PeersInv, YetToConnect
  <2> QED
    BY <2>1, <2>2 DEF PeersInv
<1>7. status[a] # PG_SUCCESS /\ status[d] # PG_SUCCESS
  BY <1>2 DEF BarrierInv, Progress, ProgressInv, InUse, Gone
<1>8. \A r \in {a, d} : /\ Active(r) /\ Known(r)
                        /\ \A s \in Sockets : Reads(r, s) = 0 /\ Writes(r, s) = 0
  BY <1>2, <1>7, EarlyCounts DEF EarlyStages, Meeting
<1>9. Known(a)' => \A s \in Sockets : Reads(a, s)' = 0 /\ Writes(a, s)' = 0
  <2>1. SUFFICES ASSUME stage'[a] \in {"listen", "connect", "writeNext"}, status'[a] # PG_SUCCESS
                 PROVE  \A s \in Sockets : Reads(a, s)' = 0 /\ Writes(a, s)' = 0
    BY <1>4, <1>7, StatusNames DEF Known, Active
  <2> QED
    BY <2>1 DEF Reads, Writes, ReadAt, WrittenAt, ReadOnce, ReadTwice, WrittenOnce, WrittenTwice,
                AfterTransition, Finishing, InUse
<1>10. \A s \in Sockets : Reads(d, s)' = 0 /\ Writes(d, s)' = 0
  <2>1. stage'[d] = stage[d] /\ status'[d] = status[d]
    BY <1>2, <1>3 DEF OthersStay
  <2> QED
    BY <1>8, <2>1 DEF Reads, Writes
<1>11. BystandersStay(a)
  <2> SUFFICES ASSUME NEW r \in Ranks \ {a}, NEW s \in Sockets, Neighbour(r, s) # a
               PROVE  Attached(r, s)' => Attached(r, s)
    BY <1>2 DEF BystandersStay
  <2>1. s = "previous_socket" => r # d
    BY RingFacts DEF Neighbour
  <2>2. stage'[r] = stage[r] /\ live'[r] = live[r]
    BY <1>3 DEF OthersStay
  <2>3. s = "previous_socket" => backlog'[r] = backlog[r]
    BY <1>1, <1>2, <2>1
  <2> QED
    BY <2>2, <2>3 DEF Attached
<1>12. \A s \in Sockets : StreamInv(a, s)'
  <2>1. StreamInv(a, "previous_socket")'
    <3>1. Attached(a, "previous_socket")' => Attached(a, "previous_socket")
      BY <1>4, <1>5 DEF Attached
    <3>2. StreamInv(a, "previous_socket") /\ Neighbour(a, "previous_socket") \in Ranks \ {a}
      BY LinkFacts DEF BarrierInv, Streams, Sockets
    <3> QED
      BY <1>2, <1>3, <1>8, <1>9, <3>1, <3>2, ReaderKeeps DEF OthersStay, Sockets
  <2>2. StreamInv(a, "next_socket")'
    <3>1. Neighbour(a, "next_socket") = d /\ Other("next_socket") = "previous_socket"
      BY DEF Neighbour, Other
    <3>2. Known(a)' => Reads(a, "next_socket")' = 0
      BY <1>9 DEF Sockets
    <3>3. Len(inbox'[a]["next_socket"]) = 0
      BY <1>2, <1>6
    <3>4. Writes(d, "previous_socket")' = 0
      BY <1>10 DEF Sockets
    <3> QED
      BY <3>1, <3>2, <3>3, <3>4 DEF StreamInv, MaxReads
  <2> QED
    BY <2>1, <2>2 DEF Sockets
<1>13. \A t \in Sockets : StreamInv(Neighbour(a, t), Other(t))'
  <2>1. StreamInv(Neighbour(a, "next_socket"), Other("next_socket"))'
    <3>1. /\ Neighbour(a, "next_socket") = d /\ Other("next_socket") = "previous_socket"
          /\ Neighbour(d, "previous_socket") = a /\ Other("previous_socket") = "next_socket"
      BY RingFacts DEF Neighbour, Other
    <3>2. Reads(d, "previous_socket")' = 0 /\ Len(inbox'[d]["previous_socket"]) = 0
      BY <1>2, <1>6, <1>10 DEF Sockets
    <3>3. Active(a)' => Writes(a, "next_socket")' = 0
      BY <1>9 DEF Known, Sockets
    <3>4. StreamInv(d, "previous_socket")'
      BY <3>1, <3>2, <3>3 DEF StreamInv, MaxReads
    <3> QED
      BY <3>1, <3>4
  <2>2. StreamInv(Neighbour(a, "previous_socket"), Other("previous_socket"))'
    <3> DEFINE q == PrevRank(a)
    <3>1. /\ Neighbour(a, "previous_socket") = q /\ Other("previous_socket") = "next_socket"
          /\ q \in Ranks \ {a}
      BY RingFacts DEF Neighbour, Other
    <3>2. StreamInv(q, "next_socket")
      BY <3>1 DEF BarrierInv, Streams, Sockets
    <3>3. Attached(q, "next_socket")' => Attached(q, "next_socket")
      BY <1>3, <3>1 DEF Attached, OthersStay
    <3>4. Active(a)' => Writes(a, "previous_socket")' = Writes(a, "previous_socket")
      BY <1>8, <1>9 DEF Known, Sockets
    <3>5. "previous_socket" \in Sockets
      BY DEF Sockets
    <3> QED
      BY <1>2, <1>3, <1>8, <3>1, <3>2, <3>3, <3>4, <3>5, WriterKeeps DEF OthersStay
  <2> QED
    BY <2>1, <2>2 DEF Sockets
<1> QED
  BY <1>3, <1>11, <1>12, <1>13, StreamsByRank DEF BarrierInv

\* Rank a takes the first message of a stream, or fails on it.
LEMMA TakeStreams ==
    ASSUME TypeOK, Streams, NEW a \in Ranks, NEW s \in Sockets, TakeMessage(a, s),
           OthersStay(a), UNCHANGED <<backlog, dest>>,
           Known(a)' => /\ Known(a)
                        /\ Reads(a, s)' = Reads(a, s) + 1
                        /\ Reads(a, Other(s))' = Reads(a, Other(s))
                        /\ \A t \in Sockets : Attached(a, t)' => Attached(a, t),
           Active(a)' => Active(a) /\ \A t \in Sockets : Writes(a, t)' = Writes(a, t)
    PROVE  Streams'
<1> DEFINE queue == inbox[a][s]
<1>1. inbox \in [Ranks -> [Sockets -> Seq(Messages)]]
  BY DEF TypeOK
<1>2. /\ inbox'[a][s] = Tail(queue)
      /\ inbox'[a][Other(s)] = inbox[a][Other(s)]
      /\ \A p \in Ranks \ {a} : inbox'[p] = inbox[p]
  BY <1>1, LinkFacts DEF TakeMessage
<1>3. queue \in Seq(Messages) /\ queue # <<>>
  BY <1>1 DEF TakeMessage
<1>4. \A t \in Sockets : t = s \/ t = Other(s)
  BY DEF Sockets, Other
<1>5. StreamInv(a, s)'
  <2>1. SUFFICES ASSUME Known(a)' PROVE StreamInv(a, s)'
    BY DEF StreamInv
  <2> DEFINE n == Len(queue)
             p == Neighbour(a, s)
  <2>2. p \in Ranks \ {a}
    BY LinkFacts
  <2>3. /\ n \in Nat /\ n >= 1 /\ Len(Tail(queue)) = n - 1
        /\ \A k \in 1..(n - 1) : Tail(queue)[k] = queue[k + 1]
    BY <1>3
  <2>4. Reads(a, s) \in Nat
    BY DEF Reads, ReadAt
  <2>5. Reads(a, s)' + Len(inbox'[a][s]) = Reads(a, s) + Len(inbox[a][s])
    BY <1>2, <2>1, <2>3, <2>4
  <2>6. ASSUME NEW k \in 1..Len(inbox'[a][s])
        PROVE  inbox'[a][s][k] = Stream(p, Other(s))[Reads(a, s)' + k]
    <3>1. k + 1 \in 1..n /\ k \in 1..(n - 1) /\ Reads(a, s)' + k = Reads(a, s) + (k + 1)
      BY <1>2, <2>1, <2>3, <2>4
    <3>2. queue[k + 1] = Stream(p, Other(s))[Reads(a, s) + (k + 1)]
      BY <2>1, <3>1 DEF StreamInv, Streams
    <3> QED
      BY <1>2, <2>3, <3>1, <3>2
  <2>7. Active(p)' = Active(p) /\ Writes(p, Other(s))' = Writes(p, Other(s)) /\ dest'[p] = dest[p]
    BY <2>2 DEF OthersStay, Active, Writes
  <2>8. StreamInv(a, s) /\ Known(a)
    BY <2>1 DEF Streams
  <2> QED
    BY <2>1, <2>5, <2>6, <2>7, <2>8 DEF StreamInv
<1>6. StreamInv(a, Other(s))'
  <2>1. /\ Other(s) \in Sockets /\ StreamInv(a, Other(s))
        /\ Neighbour(a, Other(s)) \in Ranks \ {a}
    BY LinkFacts DEF Streams
  <2> QED
    BY <1>2, <2>1, ReaderKeeps DEF OthersStay
<1>7. ASSUME NEW t \in Sockets PROVE StreamInv(Neighbour(a, t), Other(t))'
  <2>1. /\ Neighbour(a, t) \in Ranks \ {a} /\ Other(t) \in Sockets
        /\ StreamInv(Neighbour(a, t), Other(t))
    BY LinkFacts DEF Streams
  <2>2. Attached(Neighbour(a, t), Other(t))' => Attached(Neighbour(a, t), Other(t))
    BY <2>1 DEF OthersStay, Attached
  <2> QED
    BY <1>2, <2>1, <2>2, WriterKeeps DEF OthersStay
<1>8. BystandersStay(a)
  BY <1>2 DEF BystandersStay, OthersStay, Attached
<1>9. \A t \in Sockets : StreamInv(a, t)'
  BY <1>4, <1>5, <1>6
<1> QED
  BY <1>7, <1>8, <1>9, StreamsByRank

\* Rank a writes the next message of its stream to a socket that is there.
LEMMA AppendStreams ==
    ASSUME TypeOK, Streams, NEW a \in Ranks, NEW t \in Sockets, NEW m \in Messages,
           Attached(Neighbour(a, t), Other(t)), Active(a),
           inbox' = [inbox EXCEPT ![Neighbour(a, t)][Other(t)] = Append(@, m)],
           OthersStay(a), UNCHANGED <<backlog, dest>>,
           m = Stream(a, t)[Writes(a, t) + 1],
           Writes(a, t)' = Writes(a, t) + 1,
           Writes(a, t) + 1 <= MaxReads(Other(t)),
           Writes(a, t) + 1 >= 2 => dest[a] = Right(a),
           Writes(a, Other(t))' = Writes(a, Other(t)),
           \A s \in Sockets : /\ Reads(a, s)' = Reads(a, s)
                              /\ Attached(a, s)' => Attached(a, s)
    PROVE  Streams'
<1> DEFINE q == Neighbour(a, t)
           s == Other(t)
           queue == inbox[q][s]
<1>1. /\ q \in Ranks \ {a} /\ s \in Sockets /\ Neighbour(q, s) = a /\ Other(s) = t
      /\ Other(t) # t
  BY LinkFacts
<1>2. queue \in Seq(Messages)
  BY <1>1 DEF TypeOK
<1>3. /\ inbox'[q][s] = Append(queue, m)
      /\ inbox'[q][t] = inbox[q][t]
      /\ \A p \in Ranks \ {q} : inbox'[p] = inbox[p]
  <2>1. inbox \in [Ranks -> [Sockets -> Seq(Messages)]]
    BY DEF TypeOK
  <2>2. inbox' = [inbox EXCEPT ![q][s] = Append(inbox[q][s], m)]
    OBVIOUS
  <2> HIDE DEF q, s
  <2> QED
    BY <1>1, <2>1, <2>2
<1>4. \A u \in Sockets : u = t \/ u = s
  BY DEF Sockets, Other
<1>5. /\ stage'[q] = stage[q] /\ status'[q] = status[q] /\ live'[q] = live[q]
      /\ dest'[a] = dest[a]
  BY <1>1 DEF OthersStay
<1>6. StreamInv(q, s)'
  <2>1. SUFFICES ASSUME Known(q)' PROVE StreamInv(q, s)'
    BY DEF StreamInv
  <2>2. Known(q) /\ Reads(q, s)' = Reads(q, s)
    BY <1>5, <2>1 DEF Known, Active, Reads
  <2> DEFINE n == Len(queue)
             w == Writes(a, t)
             k0 == Reads(q, s)
  <2>3. StreamInv(q, s)
    BY <1>1 DEF Streams
  <2>4. n \in Nat /\ w \in Nat /\ k0 \in Nat
    BY <1>2 DEF Writes, Reads, WrittenAt, ReadAt
  <2>5. k0 + n = w
    BY <1>1, <2>2, <2>3 DEF StreamInv
  <2>6. /\ Len(Append(queue, m)) = n + 1
        /\ \A k \in 1..n : Append(queue, m)[k] = queue[k]
        /\ Append(queue, m)[n + 1] = m
    BY <1>2
  <2>7. \A k \in 1..n : queue[k] = Stream(a, t)[k0 + k]
    BY <1>1, <2>2, <2>3 DEF StreamInv
  <2>8. w + 1 <= MaxReads(s) /\ (w + 1 >= 2 => dest'[a] = Right(a))
    BY <1>5
  <2>9. m = Stream(a, t)[w + 1] /\ Writes(a, t)' = w + 1
    OBVIOUS
  <2> HIDE DEF n, w, k0, queue, q, s
  <2>10. \A k \in 1..(n + 1) : Append(queue, m)[k] = Stream(a, t)[k0 + k]
    <3> SUFFICES ASSUME NEW k \in 1..(n + 1)
                 PROVE  Append(queue, m)[k] = Stream(a, t)[k0 + k]
      OBVIOUS
    <3>1. CASE k \in 1..n
      BY <2>6, <2>7, <3>1
    <3>2. CASE k = n + 1
      <4>1. k0 + (n + 1) = w + 1
        BY <2>4, <2>5
      <4> QED
        BY <2>6, <2>9, <3>2, <4>1
    <3>3. k \in 1..n \/ k = n + 1
      <4>1. n \in Nat
        BY <2>4
      <4> QED
        BY <4>1
    <3> QED
      BY <3>1, <3>2, <3>3
  <2>11. k0 + (n + 1) = w + 1
    BY <2>4, <2>5
  <2>12. /\ Reads(q, s)' + Len(inbox'[q][s]) = w + 1
         /\ \A k \in 1..Len(inbox'[q][s]) :
                inbox'[q][s][k] = Stream(a, t)[Reads(q, s)' + k]
    BY <1>3, <2>2, <2>6, <2>10, <2>11 DEF k0
  <2> QED
    BY <1>1, <2>8, <2>9, <2>12 DEF StreamInv
<1>7. StreamInv(Neighbour(a, s), t)'
  <2> DEFINE o == Neighbour(a, s)
  <2>1. /\ o \in Ranks \ {a} /\ t \in Sockets /\ s \in Sockets /\ Other(s) = t
    BY <1>1, LinkFacts
  <2>2. StreamInv(o, t)
    BY <2>1 DEF Streams
  <2>3. inbox'[o][t] = inbox[o][t]
    BY <1>3, <2>1
  <2>4. Attached(o, t)' => Attached(o, t)
    BY <2>1 DEF OthersStay, Attached
  <2>5. stage'[o] = stage[o] /\ status'[o] = status[o]
    BY <2>1 DEF OthersStay
  <2> HIDE DEF queue, q
  <2> QED
    BY <1>5, <2>1, <2>2, <2>3, <2>4, <2>5, WriterKeeps
<1>8. ASSUME NEW u \in Sockets PROVE StreamInv(a, u)'
  <2>1. StreamInv(a, u) /\ Neighbour(a, u) \in Ranks \ {a}
    BY LinkFacts DEF Streams
  <2>2. Known(a) /\ inbox'[a] = inbox[a]
    BY <1>1, <1>3 DEF Known
  <2> HIDE DEF queue, q, s
  <2> QED
    BY <2>1, <2>2, ReaderKeeps DEF OthersStay
<1>9. \A u \in Sockets : StreamInv(Neighbour(a, u), Other(u))'
  BY <1>1, <1>4, <1>6, <1>7
<1>10. BystandersStay(a)
  <2> SUFFICES ASSUME NEW r \in Ranks \ {a}, NEW u \in Sockets, Neighbour(r, u) # a
               PROVE  /\ inbox'[r][u] = inbox[r][u]
                      /\ Attached(r, u)' => Attached(r, u)
    BY DEF BystandersStay
  <2>1. inbox'[r][u] = inbox[r][u]
    BY <1>1, <1>3, <1>4
  <2>2. Attached(r, u)' => Attached(r, u)
    BY DEF OthersStay, Attached
  <2> QED
    BY <2>1, <2>2
<1> QED
  BY <1>8, <1>9, <1>10, StreamsByRank

\* How many messages a rank has read from its next and its previous socket, and
\* written to them, stage by stage.
Counts(at, fromNext, fromPrevious, toNext, toPrevious) ==
    /\ ReadAt(at, "next_socket") = fromNext
    /\ ReadAt(at, "previous_socket") = fromPrevious
    /\ WrittenAt(at, "next_socket") = toNext
    /\ WrittenAt(at, "previous_socket") = toPrevious

LEMMA StageTable ==
    /\ Counts("writeNext", 0, 0, 0, 0)
    /\ Counts("writePrevious", 0, 0, 1, 0)
    /\ Counts("readNext", 0, 0, 1, 1)
    /\ Counts("readPrevious", 1, 0, 1, 1)
    /\ Counts("transition", 1, 1, 1, 1)
    /\ Counts("readyNext", 1, 1, 1, 1)
    /\ Counts("readyPrevious", 1, 1, 2, 1)
    /\ Counts("awaitNext", 1, 1, 2, 2)
    /\ Counts("awaitPrevious", 2, 1, 2, 2)
    /\ Counts("configure", 2, 2, 2, 2)
    /\ Counts("connected", 2, 2, 2, 2)
    /\ Counts("running", 2, 2, 2, 3)
BY DEF Counts, ReadAt, WrittenAt, ReadOnce, ReadTwice, WrittenOnce, WrittenTwice,
       AfterTransition, Finishing, InUse

\* The sockets of a rank in these stages lead to its neighbours.
LEMMA SocketsThere ==
    ASSUME OwnershipInv, Peers, NEW a \in Ranks, stage[a] \in Exchanging \cup InUse,
           NEW t \in Sockets
    PROVE  /\ t \in live[a]
           /\ peer[a][t] = Neighbour(a, t)
           /\ PeerOpen(a, t) <=> Attached(Neighbour(a, t), Other(t))
<1>1. t \in live[a]
  BY DEF OwnershipInv, OwnedAt, Owned, Resources, Lists, Sockets
<1>2. peer[a][t] = Neighbour(a, t)
  BY <1>1 DEF Peers, PeersInv
<1>3. PeerOpen(a, t) <=> Attached(Neighbour(a, t), Other(t))
  <2> DEFINE q == Neighbour(a, t)
  <2>1. q \in Ranks /\ Neighbour(q, Other(t)) = a
    BY LinkFacts
  <2>2. t = "next_socket" => PrevRank(q) = a
    BY <2>1 DEF Neighbour, Other
  <2>3. backlog[q] \in {NoRank, PrevRank(q)} /\ a # NoRank
    BY <2>1, NoRankIsNone DEF Peers, PeersInv
  <2>4. Other(t) = "previous_socket" <=> t = "next_socket"
    BY DEF Other, Sockets
  <2> QED
    BY <1>2, <2>2, <2>3, <2>4 DEF PeerOpen, Attached
<1> QED
  BY <1>1, <1>2, <1>3

\* A rank writes, the write is lost, or it fails or dies of it.
LEMMA WriteStreams ==
    ASSUME TypeOK, OwnershipInv, BarrierInv, NEW a \in Ranks, NEW t \in Sockets,
           NEW m \in Messages, NEW next,
           stage[a] \in Exchanging \cup InUse, OthersStay(a), UNCHANGED <<backlog, dest>>,
           \/ /\ PeerOpen(a, t)
              /\ inbox' = [inbox EXCEPT ![peer[a][t]][Other(t)] = Append(@, m)]
              /\ Goto(a, next) /\ UNCHANGED live
           \/ /\ ~PeerOpen(a, t) /\ UNCHANGED inbox
              /\ Goto(a, next) /\ UNCHANGED live
           \/ Quiet(a),
           next \in Exchanging \cup InUse,
           m = Stream(a, t)[WrittenAt(stage[a], t) + 1],
           WrittenAt(next, t) = WrittenAt(stage[a], t) + 1,
           WrittenAt(next, t) <= MaxReads(Other(t)),
           WrittenAt(next, t) >= 2 => dest[a] = Right(a),
           WrittenAt(next, Other(t)) = WrittenAt(stage[a], Other(t)),
           \A s \in Sockets : ReadAt(next, s) = ReadAt(stage[a], s)
    PROVE  Streams'
<1>1. /\ Streams /\ Peers /\ ControlTypes
  BY TypeParts DEF BarrierInv
<1>2. /\ peer[a][t] = Neighbour(a, t)
      /\ PeerOpen(a, t) <=> Attached(Neighbour(a, t), Other(t))
  BY <1>1, SocketsThere
<1>3. CASE Quiet(a)
  BY <1>1, <1>3, QuietStreams
<1>4. ASSUME Goto(a, next), UNCHANGED live
      PROVE  /\ Active(a) /\ Known(a)
             /\ Writes(a, t) = WrittenAt(stage[a], t)
             /\ Writes(a, t)' = Writes(a, t) + 1
             /\ Writes(a, Other(t))' = Writes(a, Other(t))
             /\ \A s \in Sockets : /\ Reads(a, s)' = Reads(a, s)
                                   /\ Attached(a, s)' => Attached(a, s)
  <2>1. stage'[a] = next /\ status' = status
    BY <1>1, <1>4, GotoEffect DEF Goto
  <2>2. Active(a) /\ Known(a)
    BY DEF Active, Known, Exchanging, InUse, Gone
  <2>3. \A s \in Sockets : Reads(a, s)' = Reads(a, s)
    BY <2>1 DEF Reads
  <2>4. stage'[a] # "accept"
    BY <2>1 DEF Exchanging, InUse
  <2>5. \A s \in Sockets : Attached(a, s)' => Attached(a, s)
    BY <1>4, <2>4 DEF Attached
  <2>6. /\ Writes(a, t) = WrittenAt(stage[a], t)
        /\ Writes(a, t)' = Writes(a, t) + 1
        /\ Writes(a, Other(t))' = Writes(a, Other(t))
    BY <2>1 DEF Writes
  <2> QED
    BY <2>2, <2>3, <2>5, <2>6
<1>5. CASE /\ PeerOpen(a, t)
           /\ inbox' = [inbox EXCEPT ![peer[a][t]][Other(t)] = Append(@, m)]
           /\ Goto(a, next) /\ UNCHANGED live
  <2>1. inbox' = [inbox EXCEPT ![Neighbour(a, t)][Other(t)] = Append(@, m)]
    BY <1>2, <1>5
  <2>2. /\ Attached(Neighbour(a, t), Other(t)) /\ Active(a)
        /\ \A s \in Sockets : /\ Reads(a, s)' = Reads(a, s)
                              /\ Attached(a, s)' => Attached(a, s)
    BY <1>2, <1>4, <1>5
  <2>3. /\ Writes(a, t) = WrittenAt(stage[a], t)
        /\ Writes(a, t)' = Writes(a, t) + 1
        /\ Writes(a, Other(t))' = Writes(a, Other(t))
    BY <1>4, <1>5
  <2>4. /\ m = Stream(a, t)[Writes(a, t) + 1]
        /\ Writes(a, t) + 1 <= MaxReads(Other(t))
        /\ Writes(a, t) + 1 >= 2 => dest[a] = Right(a)
    BY <2>3
  <2> QED
    BY <1>1, <2>1, <2>2, <2>3, <2>4, AppendStreams
<1>6. CASE /\ ~PeerOpen(a, t) /\ UNCHANGED inbox
           /\ Goto(a, next) /\ UNCHANGED live
  <2>1. \A u \in Sockets : u = t \/ u = Other(t)
    BY DEF Sockets, Other
  <2>3. \A u \in Sockets : Attached(Neighbour(a, u), Other(u)) =>
            Active(a) /\ Writes(a, u)' = Writes(a, u)
    BY <1>2, <1>4, <1>6, <2>1
  <2>4. \A s \in Sockets : Known(a) /\ inbox'[a][s] = inbox[a][s] /\ Reads(a, s)' = Reads(a, s)
                             /\ (Attached(a, s)' => Attached(a, s))
    BY <1>4, <1>6
  <2>5. /\ OthersStay(a) /\ \A p \in Ranks \ {a} : inbox'[p] = inbox[p] /\ backlog'[p] = backlog[p]
        /\ dest[a] = Right(a) => dest'[a] = Right(a)
    BY <1>6
  <2> HIDE DEF OthersStay
  <2>6. Quiet(a)
    BY <2>3, <2>4, <2>5 DEF Quiet
  <2> QED
    BY <1>1, <2>6, QuietStreams
<1> QED
  BY <1>3, <1>5, <1>6

\* What Write may do besides writing or losing the message.
LEMMA WriteElse ==
    ASSUME TypeOK, NEW a \in Ranks, NEW t, NEW m, NEW next, Write(a, t, m, next),
           OthersStay(a), UNCHANGED <<backlog, dest>>, status[a] # PG_SUCCESS
    PROVE  \/ /\ PeerOpen(a, t)
              /\ inbox' = [inbox EXCEPT ![peer[a][t]][Other(t)] = Append(@, m)]
              /\ Goto(a, next) /\ UNCHANGED live
           \/ /\ ~PeerOpen(a, t) /\ UNCHANGED inbox
              /\ Goto(a, next) /\ UNCHANGED live
           \/ Quiet(a)
<1>1. ControlTypes
  BY TypeParts
<1>2. ASSUME UNCHANGED inbox, \/ \E error \in Errors : \E cleanup : Fail(a, error, cleanup)
                              \/ Dies(a)
      PROVE  Quiet(a)
  <2>1. Still(a)
    BY <1>2 DEF Still
  <2>2. stage'[a] \in {"freeing"} \cup Gone
    BY <1>1, <1>2, FailEffect DEF Dies, ControlTypes, Gone
  <2>3. status'[a] # PG_SUCCESS
    BY <1>2, FailStatus, StatusNames DEF Dies
  <2> QED
    BY <2>1, <2>2, <2>3, QuietFails
<1> QED
  BY <1>2, StatusNames DEF Write

LEMMA WriteRecordStreams ==
    ASSUME TypeOK, OwnershipInv, BarrierInv, NEW a \in Ranks, WriteRecord(a)
    PROVE  Streams'
<1>1. OthersStay(a) /\ UNCHANGED <<backlog, dest>>
  BY StepOthers DEF RankStep, Run, WriteRecord
<1>2. stage[a] \in Exchanging /\ status[a] # PG_SUCCESS
  BY DEF WriteRecord, Exchanging, BarrierInv, Progress, ProgressInv, InUse, Gone
<1>3. /\ Other("next_socket") = "previous_socket" /\ Other("previous_socket") = "next_socket"
      /\ "next_socket" \in Sockets /\ "previous_socket" \in Sockets
      /\ Sockets = {"next_socket", "previous_socket"}
  BY DEF Other, Sockets
<1>4. \A t \in Sockets : /\ ExchangeData(<<a, QpOf(t)>>) \in Messages
                         /\ Stream(a, t)[1] = ExchangeData(<<a, QpOf(t)>>)
                         /\ MaxReads(t) \in {2, 3}
  BY MessagesTypes DEF Stream, QpOf, QueuePairs, MaxReads
<1>5. QpOf("next_socket") = "qp_next" /\ QpOf("previous_socket") = "qp_prev"
  BY DEF QpOf
<1>6. CASE /\ stage[a] = "writeNext"
           /\ Write(a, "next_socket", ExchangeData(<<a, "qp_next">>), "writePrevious")
  <2> DEFINE m == ExchangeData(<<a, "qp_next">>)
  <2>1. /\ m \in Messages
        /\ m = Stream(a, "next_socket")[WrittenAt("writeNext", "next_socket") + 1]
    BY <1>3, <1>4, <1>5, StageTable DEF Counts
  <2>2. "writePrevious" \in Exchanging \cup InUse
    BY DEF Exchanging
  <2>3. /\ WrittenAt("writePrevious", "next_socket") = WrittenAt("writeNext", "next_socket") + 1
        /\ WrittenAt("writePrevious", "next_socket") <= MaxReads("previous_socket")
        /\ ~(WrittenAt("writePrevious", "next_socket") >= 2)
        /\ WrittenAt("writePrevious", "previous_socket") = WrittenAt("writeNext", "previous_socket")
        /\ \A s \in Sockets : ReadAt("writePrevious", s) = ReadAt("writeNext", s)
    BY <1>3, <1>4, StageTable DEF Counts, MaxReads
  <2> HIDE DEF m
  <2>4. \/ /\ PeerOpen(a, "next_socket")
           /\ inbox' = [inbox EXCEPT ![peer[a]["next_socket"]][Other("next_socket")] = Append(@, m)]
           /\ Goto(a, "writePrevious") /\ UNCHANGED live
        \/ /\ ~PeerOpen(a, "next_socket") /\ UNCHANGED inbox
           /\ Goto(a, "writePrevious") /\ UNCHANGED live
        \/ Quiet(a)
    BY <1>1, <1>2, <1>6, WriteElse DEF m
  <2> QED
    BY <1>1, <1>2, <1>3, <1>6, <2>1, <2>2, <2>3, <2>4, WriteStreams
<1>7. CASE /\ stage[a] = "writePrevious"
           /\ Write(a, "previous_socket", ExchangeData(<<a, "qp_prev">>), "readNext")
  <2> DEFINE m == ExchangeData(<<a, "qp_prev">>)
  <2>1. /\ m \in Messages
        /\ m = Stream(a, "previous_socket")[WrittenAt("writePrevious", "previous_socket") + 1]
    BY <1>3, <1>4, <1>5, StageTable DEF Counts
  <2>2. "readNext" \in Exchanging \cup InUse
    BY DEF Exchanging
  <2>3. /\ WrittenAt("readNext", "previous_socket") = WrittenAt("writePrevious", "previous_socket") + 1
        /\ WrittenAt("readNext", "previous_socket") <= MaxReads("next_socket")
        /\ ~(WrittenAt("readNext", "previous_socket") >= 2)
        /\ WrittenAt("readNext", "next_socket") = WrittenAt("writePrevious", "next_socket")
        /\ \A s \in Sockets : ReadAt("readNext", s) = ReadAt("writePrevious", s)
    BY <1>3, <1>4, StageTable DEF Counts, MaxReads
  <2> HIDE DEF m
  <2>4. \/ /\ PeerOpen(a, "previous_socket")
           /\ inbox' = [inbox EXCEPT ![peer[a]["previous_socket"]][Other("previous_socket")] = Append(@, m)]
           /\ Goto(a, "readNext") /\ UNCHANGED live
        \/ /\ ~PeerOpen(a, "previous_socket") /\ UNCHANGED inbox
           /\ Goto(a, "readNext") /\ UNCHANGED live
        \/ Quiet(a)
    BY <1>1, <1>2, <1>7, WriteElse DEF m
  <2> QED
    BY <1>1, <1>2, <1>3, <1>7, <2>1, <2>2, <2>3, <2>4, WriteStreams
<1> QED
  BY <1>6, <1>7 DEF WriteRecord

LEMMA WriteReadyStreams ==
    ASSUME TypeOK, OwnershipInv, BarrierInv, NEW a \in Ranks, WriteReady(a)
    PROVE  Streams'
<1>1. OthersStay(a) /\ UNCHANGED <<backlog, dest>>
  BY StepOthers DEF RankStep, Run, WriteReady
<1>2. stage[a] \in Exchanging /\ status[a] # PG_SUCCESS
  BY DEF WriteReady, Exchanging, BarrierInv, Progress, ProgressInv, InUse, Gone
<1>3. /\ Other("next_socket") = "previous_socket" /\ Other("previous_socket") = "next_socket"
      /\ "next_socket" \in Sockets /\ "previous_socket" \in Sockets
      /\ Sockets = {"next_socket", "previous_socket"}
  BY DEF Other, Sockets
<1>4. /\ \A t \in Sockets : Stream(a, t)[2] = Ready /\ MaxReads(t) \in {2, 3}
      /\ Ready \in Messages
  BY MessagesTypes DEF Stream, MaxReads
<1>5. dest[a] = Right(a)
  BY DEF BarrierInv, Progress, ProgressInv, AfterTransition, WriteReady
<1>6. CASE stage[a] = "readyNext" /\ Write(a, "next_socket", Ready, "readyPrevious")
  <2> DEFINE m == Ready
  <2>1. m \in Messages /\ m = Stream(a, "next_socket")[WrittenAt("readyNext", "next_socket") + 1]
    BY <1>3, <1>4, StageTable DEF Counts
  <2>2. "readyPrevious" \in Exchanging \cup InUse
    BY DEF Exchanging
  <2>3. /\ WrittenAt("readyPrevious", "next_socket") = WrittenAt("readyNext", "next_socket") + 1
        /\ WrittenAt("readyPrevious", "next_socket") <= MaxReads("previous_socket")
        /\ WrittenAt("readyPrevious", "next_socket") >= 2 => dest[a] = Right(a)
        /\ WrittenAt("readyPrevious", "previous_socket") = WrittenAt("readyNext", "previous_socket")
        /\ \A s \in Sockets : ReadAt("readyPrevious", s) = ReadAt("readyNext", s)
    BY <1>3, <1>4, <1>5, StageTable DEF Counts, MaxReads
  <2> HIDE DEF m
  <2>4. \/ /\ PeerOpen(a, "next_socket")
           /\ inbox' = [inbox EXCEPT ![peer[a]["next_socket"]][Other("next_socket")] = Append(@, m)]
           /\ Goto(a, "readyPrevious") /\ UNCHANGED live
        \/ /\ ~PeerOpen(a, "next_socket") /\ UNCHANGED inbox
           /\ Goto(a, "readyPrevious") /\ UNCHANGED live
        \/ Quiet(a)
    BY <1>1, <1>2, <1>6, WriteElse DEF m
  <2> QED
    BY <1>1, <1>2, <1>3, <1>6, <2>1, <2>2, <2>3, <2>4, WriteStreams
<1>7. CASE stage[a] = "readyPrevious" /\ Write(a, "previous_socket", Ready, "awaitNext")
  <2> DEFINE m == Ready
  <2>1. m \in Messages /\ m = Stream(a, "previous_socket")[WrittenAt("readyPrevious", "previous_socket") + 1]
    BY <1>3, <1>4, StageTable DEF Counts
  <2>2. "awaitNext" \in Exchanging \cup InUse
    BY DEF Exchanging
  <2>3. /\ WrittenAt("awaitNext", "previous_socket") = WrittenAt("readyPrevious", "previous_socket") + 1
        /\ WrittenAt("awaitNext", "previous_socket") <= MaxReads("next_socket")
        /\ WrittenAt("awaitNext", "previous_socket") >= 2 => dest[a] = Right(a)
        /\ WrittenAt("awaitNext", "next_socket") = WrittenAt("readyPrevious", "next_socket")
        /\ \A s \in Sockets : ReadAt("awaitNext", s) = ReadAt("readyPrevious", s)
    BY <1>3, <1>4, <1>5, StageTable DEF Counts, MaxReads
  <2> HIDE DEF m
  <2>4. \/ /\ PeerOpen(a, "previous_socket")
           /\ inbox' = [inbox EXCEPT ![peer[a]["previous_socket"]][Other("previous_socket")] = Append(@, m)]
           /\ Goto(a, "awaitNext") /\ UNCHANGED live
        \/ /\ ~PeerOpen(a, "previous_socket") /\ UNCHANGED inbox
           /\ Goto(a, "awaitNext") /\ UNCHANGED live
        \/ Quiet(a)
    BY <1>1, <1>2, <1>7, WriteElse DEF m
  <2> QED
    BY <1>1, <1>2, <1>3, <1>7, <2>1, <2>2, <2>3, <2>4, WriteStreams
<1> QED
  BY <1>6, <1>7 DEF WriteReady

LEMMA AnnounceStreams ==
    ASSUME TypeOK, OwnershipInv, BarrierInv, NEW a \in Ranks, Announce(a)
    PROVE  Streams'
<1>1. OthersStay(a) /\ UNCHANGED <<backlog, dest>> /\ ControlTypes
  BY StepOthers, TypeParts DEF RankStep, Announce
<1>2. /\ stage[a] = "connected" /\ status[a] = PG_SUCCESS /\ dest[a] = Right(a)
      /\ stage[a] \in Exchanging \cup InUse
  BY DEF Announce, BarrierInv, Progress, ProgressInv, InUse
<1>3. /\ Other("previous_socket") = "next_socket"
      /\ "next_socket" \in Sockets /\ "previous_socket" \in Sockets
      /\ Sockets = {"next_socket", "previous_socket"}
  BY DEF Other, Sockets
<1>4. /\ Descriptor = Stream(a, "previous_socket")[WrittenAt("connected", "previous_socket") + 1]
      /\ Descriptor \in Messages
  BY MessagesTypes, StageTable DEF Stream, Counts
<1>5. "running" \in Exchanging \cup InUse
  BY DEF InUse
<1>6. /\ WrittenAt("running", "previous_socket") = WrittenAt("connected", "previous_socket") + 1
      /\ WrittenAt("running", "previous_socket") <= MaxReads("next_socket")
      /\ WrittenAt("running", "next_socket") = WrittenAt("connected", "next_socket")
      /\ \A s \in Sockets : ReadAt("running", s) = ReadAt("connected", s)
  BY <1>3, StageTable DEF Counts, MaxReads
<1>7. CASE Dies(a) /\ UNCHANGED inbox
  <2>1. Still(a)
    BY <1>1, <1>7 DEF Still
  <2>2. stage'[a] = "dead" /\ live'[a] = {} /\ UNCHANGED status
    BY <1>1, <1>7, TypeParts DEF Dies, ControlTypes, OwnershipTypes
  <2>3. Quiet(a)
    BY <1>1, <1>2, <1>7, <2>1, <2>2, QuietLeaves DEF Gone
  <2> QED
    BY <2>3, QuietStreams DEF BarrierInv
<1>8. CASE \/ /\ PeerOpen(a, "previous_socket")
              /\ inbox' = [inbox EXCEPT ![peer[a]["previous_socket"]]["next_socket"] =
                                            Append(@, Descriptor)]
              /\ Goto(a, "running") /\ UNCHANGED live
           \/ /\ ~PeerOpen(a, "previous_socket") /\ UNCHANGED inbox
              /\ Goto(a, "running") /\ UNCHANGED live
  BY <1>1, <1>2, <1>3, <1>4, <1>5, <1>6, <1>8, WriteStreams
<1> QED
  BY <1>7, <1>8 DEF Announce

\* A rank reads a message and goes on.
LEMMA ReadStreams ==
    ASSUME TypeOK, BarrierInv, NEW a \in Ranks, NEW s \in Sockets, NEW next,
           OthersStay(a), UNCHANGED <<backlog, dest, live>>, status[a] # PG_SUCCESS,
           stage[a] \in Exchanging, TakeMessage(a, s),
           \/ /\ Goto(a, next)
              /\ next \in Exchanging \cup Finishing
              /\ ReadAt(next, s) = ReadAt(stage[a], s) + 1
              /\ ReadAt(next, Other(s)) = ReadAt(stage[a], Other(s))
              /\ \A t \in Sockets : WrittenAt(next, t) = WrittenAt(stage[a], t)
           \/ \E error \in Errors : \E cleanup : Fail(a, error, cleanup)
    PROVE  Streams'
<1>1. ControlTypes /\ Streams
  BY TypeParts DEF BarrierInv
<1>2. Active(a) /\ Known(a)
  BY DEF Active, Known, Exchanging, Gone
<1>3. CASE \E error \in Errors : \E cleanup : Fail(a, error, cleanup)
  <2>1. stage'[a] = "freeing" /\ status'[a] # PG_SUCCESS
    BY <1>1, <1>3, FailEffect, FailStatus, StatusNames
  <2>2. ~Active(a)' /\ ~Known(a)'
    BY <2>1 DEF Active, Known
  <2> QED
    BY <1>1, <2>2, TakeStreams
<1>4. CASE /\ Goto(a, next)
           /\ next \in Exchanging \cup Finishing
           /\ ReadAt(next, s) = ReadAt(stage[a], s) + 1
           /\ ReadAt(next, Other(s)) = ReadAt(stage[a], Other(s))
           /\ \A t \in Sockets : WrittenAt(next, t) = WrittenAt(stage[a], t)
  <2>1. stage'[a] = next /\ status' = status
    BY <1>1, <1>4, GotoEffect DEF Goto
  <2>2. /\ Reads(a, s)' = Reads(a, s) + 1
        /\ Reads(a, Other(s))' = Reads(a, Other(s))
        /\ \A t \in Sockets : Writes(a, t)' = Writes(a, t)
    BY <1>4, <2>1 DEF Reads, Writes
  <2>3. stage'[a] # "accept"
    BY <1>4, <2>1 DEF Exchanging, Finishing
  <2>4. \A t \in Sockets : Attached(a, t)' => Attached(a, t)
    BY <2>3 DEF Attached
  <2> QED
    BY <1>1, <1>2, <2>2, <2>4, TakeStreams
<1> QED
  BY <1>3, <1>4

LEMMA ReadFailsQuiet ==
    ASSUME TypeOK, NEW a \in Ranks, NEW s, ReadFails(a, s), OthersStay(a),
           UNCHANGED <<backlog, dest>>
    PROVE  Quiet(a)
<1>1. ControlTypes
  BY TypeParts
<1>2. Fail(a, PG_ERR_TRANSPORT, CloseSockets(Sockets) \o Destructor(members[a]))
  BY DEF ReadFails
<1>3. stage'[a] = "freeing" /\ status'[a] = PG_ERR_TRANSPORT
  BY <1>1, <1>2, FailEffect, FailStatus
<1>4. Still(a)
  BY DEF Still, ReadFails
<1> QED
  BY <1>3, <1>4, StatusNames, QuietFails

LEMMA ReadRecordStreams ==
    ASSUME TypeOK, OwnershipInv, BarrierInv, NEW a \in Ranks, ReadRecord(a)
    PROVE  Streams'
<1>1. OthersStay(a) /\ UNCHANGED <<backlog, dest, live>>
  BY StepOthers DEF RankStep, Run, ReadRecord
<1>2. stage[a] \in Exchanging /\ status[a] # PG_SUCCESS
  BY DEF ReadRecord, Exchanging, BarrierInv, Progress, ProgressInv, InUse, Gone, Sockets
<1>3. PICK s \in Sockets :
          /\ stage[a] = IF s = "next_socket" THEN "readNext" ELSE "readPrevious"
          /\ \/ /\ TakeMessage(a, s)
                /\ Goto(a, IF s = "next_socket" THEN "readPrevious" ELSE "transition")
             \/ ReadFails(a, s)
  BY DEF ReadRecord
<1>4. CASE ReadFails(a, s)
  BY <1>1, <1>4, ReadFailsQuiet, QuietStreams DEF BarrierInv
<1>5. CASE /\ TakeMessage(a, s)
           /\ Goto(a, IF s = "next_socket" THEN "readPrevious" ELSE "transition")
  <2> DEFINE next == IF s = "next_socket" THEN "readPrevious" ELSE "transition"
  <2>1. /\ next \in Exchanging \cup Finishing
        /\ ReadAt(next, s) = ReadAt(stage[a], s) + 1
        /\ ReadAt(next, Other(s)) = ReadAt(stage[a], Other(s))
        /\ \A t \in Sockets : WrittenAt(next, t) = WrittenAt(stage[a], t)
    BY <1>3, StageTable DEF Counts, Exchanging, Sockets, Other
  <2>2. Goto(a, next)
    BY <1>5
  <2> HIDE DEF next
  <2> QED
    BY <1>1, <1>2, <1>5, <2>1, <2>2, ReadStreams
<1> QED
  BY <1>3, <1>4, <1>5

LEMMA ReadReadyStreams ==
    ASSUME TypeOK, OwnershipInv, BarrierInv, NEW a \in Ranks, ReadReady(a)
    PROVE  Streams'
<1>1. OthersStay(a) /\ UNCHANGED <<backlog, dest, live>>
  BY StepOthers DEF RankStep, Run, ReadReady
<1>2. stage[a] \in Exchanging /\ status[a] # PG_SUCCESS
  BY DEF ReadReady, Exchanging, BarrierInv, Progress, ProgressInv, InUse, Gone, Sockets
<1>3. PICK s \in Sockets :
          /\ stage[a] = IF s = "next_socket" THEN "awaitNext" ELSE "awaitPrevious"
          /\ \/ /\ TakeMessage(a, s)
                /\ \/ Goto(a, IF s = "next_socket" THEN "awaitPrevious" ELSE "configure")
                   \/ \E error \in Errors : \E cleanup : Fail(a, error, cleanup)
             \/ ReadFails(a, s)
  BY StatusNames DEF ReadReady
<1>4. CASE ReadFails(a, s)
  BY <1>1, <1>4, ReadFailsQuiet, QuietStreams DEF BarrierInv
<1>5. CASE /\ TakeMessage(a, s)
           /\ \/ Goto(a, IF s = "next_socket" THEN "awaitPrevious" ELSE "configure")
              \/ \E error \in Errors : \E cleanup : Fail(a, error, cleanup)
  <2> DEFINE next == IF s = "next_socket" THEN "awaitPrevious" ELSE "configure"
  <2>1. /\ next \in Exchanging \cup Finishing
        /\ ReadAt(next, s) = ReadAt(stage[a], s) + 1
        /\ ReadAt(next, Other(s)) = ReadAt(stage[a], Other(s))
        /\ \A t \in Sockets : WrittenAt(next, t) = WrittenAt(stage[a], t)
    BY <1>3, StageTable DEF Counts, Exchanging, Finishing, Sockets, Other
  <2>2. Goto(a, next) \/ \E error \in Errors : \E cleanup : Fail(a, error, cleanup)
    BY <1>5
  <2> HIDE DEF next
  <2> QED
    BY <1>1, <1>2, <1>5, <2>1, <2>2, ReadStreams
<1> QED
  BY <1>3, <1>4, <1>5

LEMMA NextStreams ==
    ASSUME TypeOK, OwnershipInv, BarrierInv, [Next]_vars
    PROVE  Streams'
<1>1. Streams
  BY DEF BarrierInv
<1>2. CASE UNCHANGED vars
  BY <1>1, <1>2 DEF vars, Streams, StreamInv, Known, Active, Reads, Writes, Attached
<1>3. ASSUME NEW a \in Ranks, RankStep(a) PROVE Streams'
  <2>1. CASE \/ CheckArguments(a) \/ GetDeviceList(a) \/ OpenDevice(a) \/ AllocPd(a) \/ QueryPort(a)
             \/ CreateTransport(a) \/ CreateQps(a)
    BY <1>1, <2>1, DeviceQuiet, QuietStreams
  <2>2. CASE GiveUp(a) \/ Listen(a) \/ Accept(a)
    BY <1>1, <2>2, MeetingQuiet, QuietStreams
  <2>3. CASE \/ TransitionToRts(a) \/ Configure(a) \/ CreateHandle(a)
             \/ Close(a) \/ Free(a) \/ Return(a) \/ Crash(a)
    BY <1>1, <2>3, HandleQuiet, QuietStreams
  <2>4. CASE Connect(a) \/ WriteRecord(a) \/ WriteReady(a) \/ Announce(a)
    BY <2>4, ConnectStreams, WriteRecordStreams, WriteReadyStreams, AnnounceStreams
  <2>5. CASE ReadRecord(a) \/ ReadReady(a)
    BY <2>5, ReadRecordStreams, ReadReadyStreams
  <2> QED
    BY <1>3, <2>1, <2>2, <2>3, <2>4, <2>5 DEF RankStep, Run
<1> QED
  BY <1>2, <1>3 DEF Next, RankStep

-----------------------------------------------------------------------------
(* What a rank knows of its neighbours.                                      *)

\* Where a step may lead: Write, the calls for the sockets, and the rest.
Onwards(a, next) == stage'[a] = next /\ status'[a] = status[a]
Fails(a) == stage'[a] = "freeing" /\ status'[a] \in Errors
Leaves(a) == stage'[a] \in {"freeing"} \cup Gone /\ status'[a] = status[a]

LEMMA GotoOnwards ==
    ASSUME TypeOK, NEW a \in Ranks, NEW next, Goto(a, next)
    PROVE  Onwards(a, next)
<1>1. stage'[a] = next /\ status' = status
  BY TypeParts, GotoEffect DEF Goto
<1> QED
  BY <1>1 DEF Onwards

LEMMA FailFails ==
    ASSUME TypeOK, NEW a \in Ranks, NEW error \in Errors, NEW cleanup, Fail(a, error, cleanup)
    PROVE  Fails(a)
BY TypeParts, FailEffect, FailStatus DEF Fails

LEMMA DiesLeaves ==
    ASSUME TypeOK, NEW a \in Ranks, Dies(a)
    PROVE  Leaves(a)
BY TypeParts DEF Dies, Leaves, Gone, ControlTypes

LEMMA LeaveLeads ==
    ASSUME TypeOK, NEW a \in Ranks, NEW first, NEW sockets, LeaveSocketCall(a, first, sockets)
    PROVE  (\E next \in {"listen", "connect", "writeNext"} : Onwards(a, next)) \/ Fails(a)
BY LeaveEffect DEF Onwards, Fails

LEMMA WriteLeads ==
    ASSUME TypeOK, NEW a \in Ranks, NEW t, NEW m, NEW next, Write(a, t, m, next)
    PROVE  Onwards(a, next) \/ Fails(a) \/ Leaves(a)
BY GotoOnwards, FailFails, DiesLeaves, StatusNames DEF Write

LEMMA ReadFailsFails ==
    ASSUME TypeOK, NEW a \in Ranks, NEW s, ReadFails(a, s)
    PROVE  Fails(a) /\ UNCHANGED <<inbox, remote>>
BY FailFails, StatusNames DEF ReadFails

\* Progress survives a step of rank a if rank a keeps its part.
LEMMA ProgressByRank ==
    ASSUME TypeOK, OwnershipInv, BarrierInv, NEW a \in Ranks, RankStep(a), ProgressInv(a)'
    PROVE  Progress'
<1> SUFFICES ASSUME NEW r \in Ranks \ {a} PROVE ProgressInv(r)'
  BY DEF Progress
<1>1. stage'[r] = stage[r] /\ status'[r] = status[r] /\ dest'[r] = dest[r]
  BY StepOthers DEF OthersStay
<1>2. remote'[r] = remote[r]
  BY StepDest
<1>3. ProgressInv(r)
  BY DEF BarrierInv, Progress
<1> QED
  BY <1>1, <1>2, <1>3 DEF ProgressInv

\* A rank that fails, goes, or goes on without reading knows what it knew.
LEMMA ProgressFails ==
    ASSUME NEW a \in Ranks, Fails(a)
    PROVE  ProgressInv(a)'
BY StatusNames DEF Fails, ProgressInv, AfterTransition, Finishing, InUse

LEMMA ProgressLeaves ==
    ASSUME NEW a \in Ranks, ProgressInv(a), Leaves(a), UNCHANGED dest
    PROVE  ProgressInv(a)'
BY DEF Leaves, Gone, ProgressInv, AfterTransition, Finishing, InUse, Right

LEMMA ProgressEarly ==
    ASSUME NEW a \in Ranks, ProgressInv(a), status[a] # PG_SUCCESS,
           NEW next \in Before \cup Meeting \cup {"writeNext", "writePrevious", "readNext"},
           Onwards(a, next)
    PROVE  ProgressInv(a)'
BY DEF Onwards, ProgressInv, AfterTransition, Finishing, InUse, Before, Meeting

LEMMA ProgressLate ==
    ASSUME NEW a \in Ranks, ProgressInv(a), stage[a] \in AfterTransition, UNCHANGED dest,
           stage'[a] \in AfterTransition,
           stage'[a] \in InUse <=> status'[a] = PG_SUCCESS
    PROVE  ProgressInv(a)'
<1>1. dest'[a] = Right(a)
  BY DEF ProgressInv
<1>2. stage'[a] \notin {"readPrevious", "transition"}
  BY DEF AfterTransition, Finishing, InUse
<1>3. Right(a)' = Right(a)
  BY DEF Right
<1> QED
  BY <1>1, <1>2, <1>3 DEF ProgressInv

\* The first message in a socket names the neighbour's queue pair.
LEMMA FirstIsRecord ==
    ASSUME TypeOK, BarrierInv, NEW a \in Ranks, NEW s \in Sockets,
           stage[a] = IF s = "next_socket" THEN "readNext" ELSE "readPrevious",
           inbox[a][s] # <<>>
    PROVE  Head(inbox[a][s]).qp = <<Neighbour(a, s), QpOf(Other(s))>>
<1>1. StreamInv(a, s) /\ inbox[a][s] \in Seq(Messages)
  BY TypeParts DEF BarrierInv, Streams, LinkTypes
<1>2. Known(a)
  BY DEF Known, Active, Gone
<1>3. status[a] # PG_SUCCESS
  BY EarlyStatus DEF BarrierInv, Progress, InUse, Gone
<1>4. Reads(a, s) = 0
  <2>1. ReadAt("readNext", "next_socket") = 0 /\ ReadAt("readPrevious", "previous_socket") = 0
    BY StageTable DEF Counts
  <2> QED
    BY <1>3, <2>1 DEF Reads, Sockets
<1>5. 1 \in 1..Len(inbox[a][s]) /\ Head(inbox[a][s]) = inbox[a][s][1]
  BY <1>1
<1>6. inbox[a][s][1] = Stream(Neighbour(a, s), Other(s))[0 + 1]
  BY <1>1, <1>2, <1>4, <1>5 DEF StreamInv
<1> QED
  BY <1>5, <1>6 DEF Stream, ExchangeData

LEMMA ReadRecordProgress ==
    ASSUME TypeOK, OwnershipInv, BarrierInv, NEW a \in Ranks, ReadRecord(a)
    PROVE  ProgressInv(a)'
<1>1. PICK s \in Sockets :
          /\ stage[a] = IF s = "next_socket" THEN "readNext" ELSE "readPrevious"
          /\ \/ /\ TakeMessage(a, s)
                /\ remote' = [remote EXCEPT ![a][s] = Head(inbox[a][s]).qp]
                /\ Goto(a, IF s = "next_socket" THEN "readPrevious" ELSE "transition")
             \/ ReadFails(a, s)
  BY DEF ReadRecord
<1>2. CASE ReadFails(a, s)
  BY <1>2, ReadFailsFails, ProgressFails
<1>3. CASE /\ TakeMessage(a, s)
           /\ remote' = [remote EXCEPT ![a][s] = Head(inbox[a][s]).qp]
           /\ Goto(a, IF s = "next_socket" THEN "readPrevious" ELSE "transition")
  <2>1. ProgressInv(a) /\ status[a] # PG_SUCCESS
    BY <1>1, EarlyStatus DEF BarrierInv, Progress, InUse, Gone, Sockets
  <2>2. Onwards(a, IF s = "next_socket" THEN "readPrevious" ELSE "transition")
    BY <1>3, GotoOnwards
  <2>3. remote \in [Ranks -> [Sockets -> Qps \cup {NoQp}]]
    BY DEF TypeOK
  <2>4. Head(inbox[a][s]).qp = <<Neighbour(a, s), QpOf(Other(s))>>
    BY <1>1, <1>3, FirstIsRecord DEF TakeMessage
  <2>5. CASE s = "next_socket"
    <3>1. remote'[a].next_socket = <<NextRank(a), "qp_prev">>
      BY <1>3, <2>3, <2>4, <2>5 DEF Neighbour, QpOf, Other, Sockets
    <3>2. stage'[a] = "readPrevious" /\ status'[a] # PG_SUCCESS
      BY <2>1, <2>2, <2>5 DEF Onwards
    <3> QED
      BY <3>1, <3>2 DEF ProgressInv, AfterTransition, Finishing, InUse, NextRank
  <2>6. CASE s = "previous_socket"
    <3>1. remote'[a].previous_socket = <<PrevRank(a), "qp_next">>
      BY <1>3, <2>3, <2>4, <2>6 DEF Neighbour, QpOf, Other, Sockets
    <3>2. remote'[a].next_socket = <<NextRank(a), "qp_prev">>
      BY <1>1, <1>3, <2>1, <2>3, <2>6 DEF ProgressInv, Sockets
    <3>3. stage'[a] = "transition" /\ status'[a] # PG_SUCCESS
      BY <2>1, <2>2, <2>6 DEF Onwards
    <3> QED
      BY <3>1, <3>2, <3>3 DEF ProgressInv, AfterTransition, Finishing, InUse, NextRank, PrevRank
  <2> QED
    BY <2>5, <2>6 DEF Sockets
<1> QED
  BY <1>1, <1>2, <1>3

LEMMA TransitionProgress ==
    ASSUME TypeOK, OwnershipInv, BarrierInv, NEW a \in Ranks, TransitionToRts(a)
    PROVE  ProgressInv(a)'
<1>1. ProgressInv(a) /\ stage[a] = "transition" /\ status[a] # PG_SUCCESS
  BY EarlyStatus DEF BarrierInv, Progress, InUse, Gone, TransitionToRts
<1>2. CASE Fail(a, PG_ERR_TRANSPORT, CloseSockets(Sockets) \o Destructor(members[a]))
  BY <1>2, FailFails, StatusNames, ProgressFails
<1>3. CASE /\ dest' = [dest EXCEPT ![a] = [qp_next |-> remote[a].next_socket,
                                          qp_prev |-> remote[a].previous_socket]]
           /\ Goto(a, "readyNext")
  <2>1. dest'[a] = Right(a)
    BY <1>1, <1>3 DEF ProgressInv, Right, TypeOK
  <2>2. Onwards(a, "readyNext")
    BY <1>3, GotoOnwards
  <2>3. Right(a)' = Right(a)
    BY DEF Right
  <2> QED
    BY <1>1, <2>1, <2>2, <2>3 DEF Onwards, ProgressInv, AfterTransition, Finishing, InUse
<1> QED
  BY <1>2, <1>3 DEF TransitionToRts

\* A rank with both queue pairs at RTS.
LEMMA LateProgress ==
    ASSUME TypeOK, OwnershipInv, BarrierInv, NEW a \in Ranks,
           WriteReady(a) \/ ReadReady(a) \/ Configure(a) \/ CreateHandle(a) \/ Announce(a)
    PROVE  ProgressInv(a)'
<1>1. ProgressInv(a)
  BY DEF BarrierInv, Progress
<1>2. UNCHANGED dest
  BY DEF WriteReady, ReadReady, Configure, CreateHandle, Announce, links_vars
<1>3. stage[a] \in AfterTransition
  BY DEF WriteReady, ReadReady, Configure, CreateHandle, Announce, AfterTransition,
         Finishing, InUse, Sockets
<1>4. ASSUME NEW next \in AfterTransition \ InUse, Onwards(a, next), status[a] # PG_SUCCESS
      PROVE  ProgressInv(a)'
  BY <1>1, <1>2, <1>3, <1>4, ProgressLate DEF Onwards
<1>5. CASE WriteReady(a)
  <2>1. status[a] # PG_SUCCESS
    BY <1>1, <1>5, EarlyStatus DEF WriteReady, InUse, Gone
  <2>2. \/ \E next \in {"readyPrevious", "awaitNext"} : Onwards(a, next)
        \/ Fails(a) \/ Leaves(a)
    BY <1>5, WriteLeads DEF WriteReady
  <2>3. {"readyPrevious", "awaitNext"} \subseteq AfterTransition \ InUse
    BY DEF AfterTransition, InUse
  <2> QED
    BY <1>1, <1>2, <1>4, <2>1, <2>2, <2>3, ProgressFails, ProgressLeaves
<1>6. CASE ReadReady(a)
  <2>1. status[a] # PG_SUCCESS
    BY <1>1, <1>6, EarlyStatus DEF ReadReady, InUse, Gone, Sockets
  <2>2. \/ \E next \in {"awaitPrevious", "configure"} : Goto(a, next)
        \/ \E error \in Errors : \E cleanup : Fail(a, error, cleanup)
        \/ \E s \in Sockets : ReadFails(a, s)
    BY <1>6, StatusNames DEF ReadReady
  <2>3. (\E next \in {"awaitPrevious", "configure"} : Onwards(a, next)) \/ Fails(a)
    BY <2>2, GotoOnwards, FailFails, ReadFailsFails
  <2>4. {"awaitPrevious", "configure"} \subseteq AfterTransition \ InUse
    BY DEF AfterTransition, Finishing, InUse
  <2> QED
    BY <1>4, <2>1, <2>3, <2>4, ProgressFails
<1>7. CASE Configure(a)
  <2>1. status[a] # PG_SUCCESS
    BY <1>1, <1>7, EarlyStatus DEF Configure, InUse, Gone
  <2>2. Onwards(a, "create") \/ Fails(a)
    BY <1>7, GotoOnwards, FailFails, StatusNames DEF Configure
  <2>3. "create" \in AfterTransition \ InUse
    BY DEF AfterTransition, Finishing, InUse
  <2> QED
    BY <1>4, <2>1, <2>2, <2>3, ProgressFails
<1>8. CASE CreateHandle(a)
  <2>1. CASE /\ stage'  = [stage EXCEPT ![a] = "connected"]
             /\ status' = [status EXCEPT ![a] = PG_SUCCESS]
    <3>1. stage'[a] = "connected" /\ status'[a] = PG_SUCCESS
      BY <2>1, TypeParts DEF ControlTypes
    <3>2. "connected" \in AfterTransition \cap InUse
      BY DEF AfterTransition, InUse
    <3> QED
      BY <1>1, <1>2, <1>3, <3>1, <3>2, ProgressLate
  <2>2. CASE \E error \in Errors : \E cleanup : Fail(a, error, cleanup)
    BY <2>2, FailFails, ProgressFails
  <2> QED
    BY <1>8, <2>1, <2>2, StatusNames DEF CreateHandle
<1>9. CASE Announce(a)
  <2>1. status[a] = PG_SUCCESS
    BY <1>1, <1>9 DEF Announce, ProgressInv, InUse
  <2>2. Onwards(a, "running") \/ Leaves(a)
    BY <1>9, GotoOnwards, DiesLeaves DEF Announce
  <2>3. "running" \in AfterTransition \cap InUse
    BY DEF AfterTransition, InUse
  <2>4. CASE Onwards(a, "running")
    BY <1>1, <1>2, <1>3, <2>1, <2>3, <2>4, ProgressLate DEF Onwards
  <2> QED
    BY <1>1, <1>2, <2>2, <2>4, ProgressLeaves
<1> QED
  BY <1>5, <1>6, <1>7, <1>8, <1>9

LEMMA NextProgress ==
    ASSUME TypeOK, OwnershipInv, BarrierInv, [Next]_vars
    PROVE  Progress'
<1>1. CASE UNCHANGED vars
  BY <1>1 DEF vars, BarrierInv, Progress, ProgressInv, Right
<1>2. ASSUME NEW a \in Ranks, RankStep(a) PROVE ProgressInv(a)'
  <2> DEFINE Early == Before \cup Meeting \cup {"writeNext", "writePrevious", "readNext"}
  <2>1. ProgressInv(a)
    BY DEF BarrierInv, Progress
  <2>2. ASSUME stage[a] \in Before \cup Meeting \cup Exchanging, UNCHANGED dest,
               (\E next \in Early : Onwards(a, next)) \/ Fails(a) \/ Leaves(a)
        PROVE  ProgressInv(a)'
    <3>1. status[a] # PG_SUCCESS
      BY <2>1, <2>2, EarlyStatus DEF Before, Meeting, Exchanging, InUse, Gone
    <3> QED
      BY <2>1, <2>2, <3>1, ProgressEarly, ProgressFails, ProgressLeaves
  <2>3. CASE \/ CheckArguments(a) \/ GetDeviceList(a) \/ OpenDevice(a) \/ AllocPd(a) \/ QueryPort(a)
             \/ CreateTransport(a) \/ CreateQps(a)
    <3>1. stage[a] \in Before /\ UNCHANGED dest
      BY <2>3 DEF Before, CheckArguments, GetDeviceList, OpenDevice, AllocPd, QueryPort,
                  CreateTransport,
                  CreateQps, links_vars
    <3>2. \/ \E next \in {"device", "open", "pd", "port", "transport", "qps", "connect", "listen"} :
                 Goto(a, next)
          \/ \E error \in Errors : \E cleanup : Fail(a, error, cleanup)
      BY <2>3, StatusNames
         DEF CheckArguments, GetDeviceList, OpenDevice, AllocPd, QueryPort,
             CreateTransport, CreateQps
    <3>3. {"device", "open", "pd", "port", "transport", "qps", "connect", "listen"} \subseteq Early
      BY DEF Before, Meeting
    <3>4. (\E next \in Early : Onwards(a, next)) \/ Fails(a)
      BY <3>2, <3>3, GotoOnwards, FailFails
    <3> HIDE DEF Early
    <3> QED
      BY <2>2, <3>1, <3>4
  <2>4. CASE Connect(a) \/ GiveUp(a) \/ Listen(a) \/ Accept(a)
    <3>1. stage[a] \in Meeting /\ UNCHANGED dest
      BY <2>4 DEF Meeting, Connect, GiveUp, Listen, Accept, links_vars
    <3>2. Goto(a, "accept") \/ \E first, sockets : LeaveSocketCall(a, first, sockets)
      BY <2>4 DEF Connect, GiveUp, Listen, Accept
    <3>3. {"listen", "connect", "writeNext", "accept"} \subseteq Early
      BY DEF Meeting
    <3>4. (\E next \in Early : Onwards(a, next)) \/ Fails(a)
      BY <3>2, <3>3, GotoOnwards, LeaveLeads
    <3> HIDE DEF Early
    <3> QED
      BY <2>2, <3>1, <3>4
  <2>5. CASE WriteRecord(a)
    <3>1. stage[a] \in Exchanging /\ UNCHANGED dest
      BY <2>5 DEF Exchanging, WriteRecord
    <3>2. (\E next \in {"writePrevious", "readNext"} : Onwards(a, next)) \/ Fails(a) \/ Leaves(a)
      BY <2>5, WriteLeads DEF WriteRecord
    <3> QED
      BY <2>2, <3>1, <3>2
  <2>6. CASE Close(a) \/ Free(a) \/ Return(a) \/ Crash(a)
    <3>1. UNCHANGED dest
      BY <2>6 DEF Close, Free, Return, Crash, links_vars
    <3>2. Leaves(a)
      BY <2>6, GotoOnwards, DiesLeaves, TypeParts
         DEF Close, Free, Return, Crash, Onwards, Leaves, Gone, ControlTypes
    <3> QED
      BY <2>1, <3>1, <3>2, ProgressLeaves
  <2>7. CASE ReadRecord(a) \/ TransitionToRts(a)
    BY <2>7, ReadRecordProgress, TransitionProgress
  <2>8. CASE WriteReady(a) \/ ReadReady(a) \/ Configure(a) \/ CreateHandle(a) \/ Announce(a)
    BY <2>8, LateProgress
  <2> QED
    BY <1>2, <2>3, <2>4, <2>5, <2>6, <2>7, <2>8 DEF RankStep, Run
<1>3. ASSUME NEW a \in Ranks, RankStep(a) PROVE Progress'
  BY <1>2, <1>3, ProgressByRank
<1> QED
  BY <1>1, <1>3 DEF Next, RankStep

-----------------------------------------------------------------------------
(* Sockets lead to the neighbours only.                                      *)

\* What a step that connects nothing does to the links.
LinksStay(a) ==
    /\ OthersStay(a)
    /\ UNCHANGED peer
    /\ \A p \in Ranks \ {a} : backlog'[p] = backlog[p]
    /\ backlog'[a] \in {NoRank, backlog[a]}
    /\ \A s \in Sockets : s \in live'[a] => s \in live[a]
    /\ Active(a)' /\ stage'[a] # "accept" => backlog'[a] = NoRank
    /\ YetToConnect(a)' => YetToConnect(a)

\* Nothing arrives in a socket that is not connected.
NothingArrives ==
    \A r \in Ranks : peer[r].next_socket = NoRank =>
        inbox'[r].next_socket = <<>> /\ inbox'[NextRank(r)].previous_socket = <<>>

LEMMA PeersStay ==
    ASSUME Peers, NEW a \in Ranks, LinksStay(a), NothingArrives
    PROVE  Peers'
<1> SUFFICES ASSUME NEW r \in Ranks PROVE PeersInv(r)'
  BY DEF Peers
<1>1. PeersInv(r) /\ peer'[r] = peer[r]
  BY DEF Peers, LinksStay
<1>2. backlog'[r] \in {NoRank, PrevRank(r)}
  BY <1>1 DEF PeersInv, LinksStay
<1>3. \A s \in Sockets : s \in live'[r] => s \in live[r]
  BY DEF LinksStay, OthersStay
<1>4. Active(r)' /\ stage'[r] # "accept" => backlog'[r] = NoRank
  BY <1>1 DEF PeersInv, LinksStay, OthersStay, Active
<1>5. YetToConnect(r)' => YetToConnect(r)
  <2>1. stage'[r] = stage[r] => (YetToConnect(r)' <=> YetToConnect(r))
    BY DEF YetToConnect
  <2> QED
    BY <2>1 DEF LinksStay, OthersStay
<1>6. peer[r].next_socket = NoRank =>
          inbox'[r].next_socket = <<>> /\ inbox'[NextRank(r)].previous_socket = <<>>
  BY DEF NothingArrives
<1>7. NoRank' = NoRank /\ PrevRank(r)' = PrevRank(r)
      /\ \A s \in Sockets : Neighbour(r, s)' = Neighbour(r, s)
  BY DEF NoRank, Neighbour
<1> QED
  BY <1>1, <1>2, <1>3, <1>4, <1>5, <1>6, <1>7 DEF PeersInv

LEMMA SameInboxes ==
    ASSUME Peers, UNCHANGED inbox
    PROVE  NothingArrives
BY DEF Peers, PeersInv, NothingArrives

\* A rank that has its sockets, or whose call is over.
LEMMA PeersConnected ==
    ASSUME TypeOK, OwnershipInv, BarrierInv, NEW a \in Ranks, RankStep(a), NothingArrives,
           UNCHANGED <<backlog, peer>>,
           stage[a] \notin Before \cup Meeting,
           stage'[a] \notin Before \cup Meeting,
           Active(a)' => Active(a),
           \A s \in Sockets : s \in live'[a] => s \in live[a]
    PROVE  Peers'
<1>1. ~YetToConnect(a)'
  BY DEF YetToConnect, Before, Meeting
<1>2. Active(a)' => backlog[a] = NoRank
  BY DEF BarrierInv, Peers, PeersInv, Meeting
<1>3. LinksStay(a)
  BY <1>1, <1>2, StepOthers DEF LinksStay
<1> QED
  BY <1>3, PeersStay DEF BarrierInv

\* Where the steps of such a rank lead.
Beyond == {"writePrevious", "readNext", "readPrevious", "transition", "readyNext",
           "readyPrevious", "awaitNext", "awaitPrevious", "configure", "create",
           "connected", "running"}

LEMMA BeyondMeeting ==
    ASSUME NEW a \in Ranks,
           (\E next \in Beyond : Onwards(a, next)) \/ Fails(a) \/ Leaves(a)
    PROVE  stage'[a] \notin Before \cup Meeting
BY DEF Beyond, Onwards, Fails, Leaves, Gone, Before, Meeting

\* The device, and giving up, listening and accepting.
LEMMA DevicePeers ==
    ASSUME TypeOK, OwnershipInv, BarrierInv, NEW a \in Ranks,
           \/ CheckArguments(a) \/ GetDeviceList(a) \/ OpenDevice(a) \/ AllocPd(a) \/ QueryPort(a)
           \/ CreateTransport(a) \/ CreateQps(a)
    PROVE  Peers'
<1>1. RankStep(a)
  BY DEF RankStep, Run
<1>2. stage[a] \in Before /\ UNCHANGED <<backlog, peer, inbox>>
  BY DEF Before, CheckArguments, GetDeviceList, OpenDevice, AllocPd, QueryPort, CreateTransport,
         CreateQps, links_vars
<1>3. YetToConnect(a) /\ backlog[a] = NoRank
  BY <1>2 DEF YetToConnect, BarrierInv, Peers, PeersInv, Active, Before, Gone
<1>4. \A s \in Sockets : s \in live'[a] => s \in live[a]
  <2>1. OwnershipTypes
    BY TypeParts
  <2> QED
    BY <2>1, DeviceSockets
<1>5. LinksStay(a)
  BY <1>1, <1>2, <1>3, <1>4, StepOthers DEF LinksStay
<1> QED
  BY <1>2, <1>5, SameInboxes, PeersStay DEF BarrierInv

\* A rank leaves one of its two calls for the sockets: it has not connected yet
\* only if it had not and accepts before it connects.
LEMMA LeaveYet ==
    ASSUME TypeOK, NEW a \in Ranks, NEW sockets,
           \/ stage[a] = "connect" /\ LeaveSocketCall(a, ConnectsFirst(a), sockets)
           \/ stage[a] \in {"listen", "accept"} /\ LeaveSocketCall(a, ~ConnectsFirst(a), sockets)
    PROVE  /\ stage'[a] # "accept"
           /\ YetToConnect(a)' => stage[a] \in {"listen", "accept"} /\ ~ConnectsFirst(a)
<1>1. CASE ConnectsFirst(a)
  <2>1. CASE stage[a] = "connect"
    <3>1. Goto(a, "listen")
      BY <1>1, <2>1 DEF LeaveSocketCall, ConnectsFirst
    <3> QED
      BY <1>1, <3>1, GotoOnwards DEF Onwards, YetToConnect, Before, ConnectsFirst
  <2>2. CASE stage[a] \in {"listen", "accept"}
    <3>1. Goto(a, "writeNext") \/ \E cleanup : Fail(a, PG_ERR_TRANSPORT, cleanup)
      BY <1>1, <2>2 DEF LeaveSocketCall, ConnectsFirst
    <3> QED
      BY <3>1, GotoOnwards, FailFails, StatusNames DEF Onwards, Fails, YetToConnect, Before
  <2> QED
    BY <2>1, <2>2
<1>2. CASE ~ConnectsFirst(a)
  <2>1. CASE stage[a] = "connect"
    <3>1. Goto(a, "writeNext") \/ \E cleanup : Fail(a, PG_ERR_TRANSPORT, cleanup)
      BY <1>2, <2>1 DEF LeaveSocketCall, ConnectsFirst
    <3> QED
      BY <3>1, GotoOnwards, FailFails, StatusNames DEF Onwards, Fails, YetToConnect, Before
  <2>2. CASE stage[a] \in {"listen", "accept"}
    <3>1. Goto(a, "connect")
      BY <1>2, <2>2 DEF LeaveSocketCall, ConnectsFirst
    <3> QED
      BY <1>2, <2>2, <3>1, GotoOnwards DEF Onwards
  <2> QED
    BY <2>1, <2>2
<1> QED
  BY <1>1, <1>2

LEMMA MeetingPeers ==
    ASSUME TypeOK, OwnershipInv, BarrierInv, NEW a \in Ranks,
           GiveUp(a) \/ Listen(a) \/ Accept(a)
    PROVE  Peers'
<1>1. RankStep(a) /\ PeersInv(a)
  BY DEF RankStep, Run, BarrierInv, Peers
<1>2. OthersStay(a) /\ UNCHANGED inbox
  BY <1>1, StepOthers DEF GiveUp, Listen, Accept, links_vars
<1>3. NothingArrives
  BY <1>2, SameInboxes DEF BarrierInv
<1>4. stage[a] \in {"listen", "accept"} /\ ~ConnectsFirst(a) => YetToConnect(a)
  BY DEF YetToConnect
<1>5. stage[a] # "accept" => backlog[a] = NoRank
  BY <1>1 DEF PeersInv, GiveUp, Listen, Accept, Active, Gone
<1>6. CASE GiveUp(a)
  <2>1. UNCHANGED <<live, peer, backlog>> /\ stage[a] = "connect"
    BY <1>6 DEF GiveUp, links_vars
  <2>2. YetToConnect(a)' => YetToConnect(a)
    BY <1>4, <1>6, LeaveYet DEF GiveUp
  <2>3. LinksStay(a)
    BY <1>2, <1>5, <2>1, <2>2 DEF LinksStay
  <2> QED
    BY <1>3, <2>3, PeersStay DEF BarrierInv
<1>7. CASE Listen(a)
  <2>1. UNCHANGED <<live, peer, backlog>> /\ stage[a] = "listen"
    BY <1>7 DEF Listen, links_vars
  <2>2. YetToConnect(a)' => YetToConnect(a)
    <3>1. CASE Goto(a, "accept")
      BY <1>4, <2>1, <3>1, GotoOnwards DEF Onwards, YetToConnect, Before, ConnectsFirst
    <3>2. CASE LeaveSocketCall(a, ~ConnectsFirst(a), live[a] \cap Sockets)
      BY <1>4, <2>1, <3>2, LeaveYet
    <3> QED
      BY <1>7, <3>1, <3>2 DEF Listen
  <2>3. LinksStay(a)
    BY <1>2, <1>5, <2>1, <2>2 DEF LinksStay
  <2> QED
    BY <1>3, <2>3, PeersStay DEF BarrierInv
<1>8. CASE Accept(a)
  <2>1. /\ backlog \in [Ranks -> Ranks \cup {NoRank}]
        /\ peer \in [Ranks -> [Sockets -> Ranks \cup {NoRank}]]
        /\ OwnershipTypes
    BY TypeParts DEF LinkTypes
  <2>2. stage[a] = "accept" /\ backlog' = [backlog EXCEPT ![a] = NoRank]
    BY <1>8 DEF Accept
  <2>3. \E sockets : LeaveSocketCall(a, ~ConnectsFirst(a), sockets)
    BY <1>8 DEF Accept
  <2>4. YetToConnect(a)' => YetToConnect(a)
    BY <1>4, <2>2, <2>3, LeaveYet
  <2>5. CASE UNCHANGED <<live, peer>>
    <3>1. LinksStay(a)
      BY <1>2, <2>1, <2>2, <2>4, <2>5 DEF LinksStay
    <3> QED
      BY <1>3, <3>1, PeersStay DEF BarrierInv
  <2>6. CASE /\ backlog[a] # NoRank
             /\ peer' = [peer EXCEPT ![a]["previous_socket"] = backlog[a]]
             /\ Own(a, {"previous_socket"})
    <3>1. backlog[a] = PrevRank(a)
      BY <1>1, <2>6 DEF PeersInv
    <3>2. /\ backlog'[a] = NoRank /\ peer'[a].next_socket = peer[a].next_socket
          /\ peer'[a].previous_socket = PrevRank(a)
          /\ live'[a] = live[a] \cup {"previous_socket"}
      BY <2>1, <2>2, <2>6, <3>1, OwnEffect DEF Sockets
    <3>3. \A p \in Ranks \ {a} : peer'[p] = peer[p] /\ backlog'[p] = backlog[p]
      BY <2>1, <2>2, <2>6
    <3>4. PeersInv(a)'
      <4>1. /\ Neighbour(a, "previous_socket") = PrevRank(a)
            /\ Sockets = {"next_socket", "previous_socket"}
        BY DEF Neighbour, Sockets
      <4>2. \A s \in Sockets : /\ peer'[a][s] \in {NoRank, Neighbour(a, s)}
                               /\ s \in live'[a] => peer'[a][s] = Neighbour(a, s)
        BY <1>1, <3>2, <4>1 DEF PeersInv
      <4>3. YetToConnect(a)' => peer'[a].next_socket = NoRank
        BY <1>1, <2>4, <3>2 DEF PeersInv
      <4>4. peer'[a].next_socket = NoRank =>
                inbox'[a].next_socket = <<>> /\ inbox'[NextRank(a)].previous_socket = <<>>
        BY <1>3, <3>2 DEF NothingArrives
      <4> QED
        BY <3>2, <4>2, <4>3, <4>4 DEF PeersInv, Neighbour, NoRank
    <3>5. ASSUME NEW r \in Ranks \ {a} PROVE PeersInv(r)'
      <4>1. /\ stage'[r] = stage[r] /\ live'[r] = live[r] /\ peer'[r] = peer[r]
            /\ backlog'[r] = backlog[r] /\ inbox' = inbox
        BY <1>2, <3>3 DEF OthersStay
      <4>2. PeersInv(r)
        BY DEF BarrierInv, Peers
      <4> QED
        BY <4>1, <4>2 DEF PeersInv, Active, YetToConnect, Neighbour, NoRank
    <3> QED
      BY <3>4, <3>5 DEF Peers
  <2> QED
    BY <1>8, <2>5, <2>6 DEF Accept
<1> QED
  BY <1>6, <1>7, <1>8

LEMMA ConnectPeers ==
    ASSUME TypeOK, OwnershipInv, BarrierInv, NEW a \in Ranks, Connect(a)
    PROVE  Peers'
<1> DEFINE d == NextRank(a)
<1>1. /\ backlog \in [Ranks -> Ranks \cup {NoRank}]
      /\ peer \in [Ranks -> [Sockets -> Ranks \cup {NoRank}]]
      /\ OwnershipTypes
  BY TypeParts DEF LinkTypes
<1>2. /\ stage[a] = "connect" /\ stage[d] = "accept" /\ d \in Ranks /\ d # a
      /\ backlog' = [backlog EXCEPT ![d] = a]
      /\ peer' = [peer EXCEPT ![a]["next_socket"] = d]
      /\ Own(a, {"next_socket"}) /\ UNCHANGED inbox
      /\ \E sockets : LeaveSocketCall(a, ConnectsFirst(a), sockets)
  <2>1. PICK e \in Ranks :
            /\ stage[a] = "connect" /\ stage[e] = "accept"
            /\ base_port + a = base_port + PrevRank(e)
            /\ backlog' = [backlog EXCEPT ![e] = a]
            /\ peer' = [peer EXCEPT ![a]["next_socket"] = e]
            /\ Own(a, {"next_socket"}) /\ UNCHANGED inbox
            /\ \E sockets : LeaveSocketCall(a, ConnectsFirst(a), sockets)
    BY DEF Connect
  <2>2. e = d
    BY <2>1, PortOfNext
  <2>3. d # a
    BY RingFacts
  <2> QED
    BY <2>1, <2>2, <2>3
<1>3. OthersStay(a)
  BY StepOthers DEF RankStep, Run
<1>4. ~YetToConnect(a)'
  BY <1>2, LeaveYet
<1>5. /\ peer'[a].next_socket = d /\ peer'[a].previous_socket = peer[a].previous_socket
      /\ live'[a] = live[a] \cup {"next_socket"} /\ backlog'[a] = backlog[a]
  BY <1>1, <1>2, OwnEffect DEF Sockets
<1>6. \A p \in Ranks \ {a} : peer'[p] = peer[p] /\ (p # d => backlog'[p] = backlog[p])
  BY <1>1, <1>2
<1>7. PeersInv(a)'
  <2>1. PeersInv(a)
    BY DEF BarrierInv, Peers
  <2>2. backlog[a] = NoRank
    BY <1>2, <2>1 DEF PeersInv, Active, Gone
  <2>3. Neighbour(a, "next_socket") = d /\ Sockets = {"next_socket", "previous_socket"}
    BY DEF Neighbour, Sockets
  <2>4. \A s \in Sockets : /\ peer'[a][s] \in {NoRank, Neighbour(a, s)}
                           /\ s \in live'[a] => peer'[a][s] = Neighbour(a, s)
    BY <1>5, <2>1, <2>3 DEF PeersInv
  <2>5. d # NoRank
    BY <1>2, NoRankIsNone
  <2> HIDE DEF d
  <2> QED
    BY <1>4, <1>5, <2>2, <2>4, <2>5 DEF PeersInv, Neighbour, NoRank
<1>8. ASSUME NEW r \in Ranks \ {a} PROVE PeersInv(r)'
  <2>1. /\ stage'[r] = stage[r] /\ live'[r] = live[r] /\ peer'[r] = peer[r] /\ inbox' = inbox
    BY <1>2, <1>3, <1>6 DEF OthersStay
  <2>2. PeersInv(r)
    BY DEF BarrierInv, Peers
  <2>3. backlog'[r] \in {NoRank, PrevRank(r)}
    <3>1. CASE r = d
      BY <1>1, <1>2, <3>1, RingFacts
    <3>2. CASE r # d
      BY <1>6, <2>2, <3>2 DEF PeersInv
    <3> QED
      BY <3>1, <3>2
  <2>4. Active(r)' /\ stage'[r] # "accept" => backlog'[r] = NoRank
    <3>1. CASE r = d
      BY <1>2, <2>1, <3>1
    <3>2. CASE r # d
      BY <1>6, <2>1, <2>2, <3>2 DEF PeersInv, Active
    <3> QED
      BY <3>1, <3>2
  <2> HIDE DEF d
  <2> QED
    BY <2>1, <2>2, <2>3, <2>4 DEF PeersInv, YetToConnect, Neighbour, NoRank
<1> QED
  BY <1>7, <1>8 DEF Peers

\* A message goes only where a socket is connected.
LEMMA WritePeers ==
    ASSUME TypeOK, OwnershipInv, BarrierInv, NEW a \in Ranks, NEW t \in Sockets,
           RankStep(a), UNCHANGED <<backlog, peer>>,
           stage[a] \in Exchanging \cup InUse, NEW m,
           (\E next \in Beyond : Onwards(a, next)) \/ Fails(a) \/ Leaves(a),
           \A s \in Sockets : s \in live'[a] => s \in live[a],
           \/ UNCHANGED inbox
           \/ /\ PeerOpen(a, t)
              /\ inbox' = [inbox EXCEPT ![peer[a][t]][Other(t)] = Append(@, m)]
    PROVE  Peers'
<1>1. NothingArrives
  <2>1. CASE UNCHANGED inbox
    BY <2>1, SameInboxes DEF BarrierInv
  <2>2. CASE /\ PeerOpen(a, t)
             /\ inbox' = [inbox EXCEPT ![peer[a][t]][Other(t)] = Append(@, m)]
    <3> DEFINE q == Neighbour(a, t)
    <3>1. peer[a][t] = q /\ Attached(q, Other(t)) /\ t \in live[a] /\ q \in Ranks
      BY <2>2, SocketsThere, LinkFacts DEF BarrierInv
    <3>2. Peers /\ inbox \in [Ranks -> [Sockets -> Seq(Messages)]]
      BY TypeParts DEF BarrierInv, LinkTypes
    <3>3. inbox' = [inbox EXCEPT ![q][Other(t)] = Append(@, m)]
      BY <2>2, <3>1
    <3>4. CASE t = "next_socket"
      <4>1. peer[a].next_socket # NoRank /\ q = NextRank(a) /\ Other(t) = "previous_socket"
        BY <3>1, <3>4, NoRankIsNone DEF Neighbour, Other
      <4>2. ASSUME NEW r \in Ranks, peer[r].next_socket = NoRank
            PROVE  NextRank(r) # q /\ NextRank(r) \in Ranks
        BY <4>1, <4>2, RingFacts
      <4>3. \A r \in Ranks : inbox'[r].next_socket = inbox[r].next_socket
        BY <3>2, <3>3, <4>1 DEF Sockets
      <4>4. \A r \in Ranks : r # q => inbox'[r] = inbox[r]
        BY <3>2, <3>3
      <4> HIDE DEF q
      <4> QED
        BY <3>2, <4>2, <4>3, <4>4 DEF NothingArrives, Peers, PeersInv
    <3>5. CASE t = "previous_socket"
      <4>1. Other(t) = "next_socket" /\ "next_socket" \in live[q]
        BY <3>1, <3>5 DEF Other, Attached
      <4>2. peer[q].next_socket = NextRank(q) /\ NextRank(q) # NoRank
        BY <3>1, <3>2, <4>1, RingFacts, NoRankIsNone DEF Peers, PeersInv, Neighbour, Sockets
      <4>3. \A r \in Ranks : inbox'[r].previous_socket = inbox[r].previous_socket
        BY <3>2, <3>3, <4>1 DEF Sockets
      <4>4. \A r \in Ranks : r # q => inbox'[r] = inbox[r]
        BY <3>2, <3>3
      <4>5. \A r \in Ranks : NextRank(r) \in Ranks
        BY RingFacts
      <4> HIDE DEF q
      <4> QED
        BY <3>2, <4>2, <4>3, <4>4, <4>5 DEF NothingArrives, Peers, PeersInv
    <3> QED
      BY <3>4, <3>5 DEF Sockets
  <2> QED
    BY <2>1, <2>2
<1>2. Active(a) /\ stage[a] \notin Before \cup Meeting
  BY DEF Active, Gone, Exchanging, InUse, Before, Meeting
<1>3. stage'[a] \notin Before \cup Meeting
  BY BeyondMeeting
<1> QED
  BY <1>1, <1>2, <1>3, PeersConnected

LEMMA ReadPeers ==
    ASSUME TypeOK, OwnershipInv, BarrierInv, NEW a \in Ranks, ReadRecord(a) \/ ReadReady(a)
    PROVE  Peers'
<1>1. RankStep(a) /\ UNCHANGED <<live, backlog, peer>>
  BY DEF RankStep, Run, ReadRecord, ReadReady
<1>2. stage[a] \in Exchanging
  BY DEF ReadRecord, ReadReady, Exchanging, Sockets
<1>3. PICK s \in Sockets :
          \/ /\ TakeMessage(a, s)
             /\ \/ \E next \in {"readPrevious", "transition", "awaitPrevious", "configure"} :
                       Goto(a, next)
                \/ \E error \in Errors : \E cleanup : Fail(a, error, cleanup)
          \/ ReadFails(a, s)
  BY StatusNames DEF ReadRecord, ReadReady
<1>4. (\E next \in {"readPrevious", "transition", "awaitPrevious", "configure"} :
            Onwards(a, next)) \/ Fails(a)
  BY <1>3, GotoOnwards, FailFails, ReadFailsFails
<1>5. {"readPrevious", "transition", "awaitPrevious", "configure"} \subseteq Beyond
  BY DEF Beyond
<1>6. NothingArrives
  <2>1. Peers /\ inbox \in [Ranks -> [Sockets -> Seq(Messages)]]
    BY TypeParts DEF BarrierInv, LinkTypes
  <2>2. CASE ReadFails(a, s)
    BY <2>1, <2>2, ReadFailsFails, SameInboxes
  <2>3. CASE TakeMessage(a, s)
    <3>1. inbox[a][s] # <<>> /\ inbox' = [inbox EXCEPT ![a][s] = Tail(@)]
      BY <2>3 DEF TakeMessage
    <3>2. ASSUME NEW r \in Ranks, NEW u \in Sockets, inbox[r][u] = <<>>
          PROVE  inbox'[r][u] = <<>>
      BY <2>1, <3>1, <3>2
    <3>3. \A r \in Ranks : NextRank(r) \in Ranks
      BY RingFacts
    <3> QED
      BY <2>1, <3>2, <3>3 DEF NothingArrives, Peers, PeersInv, Sockets
  <2> QED
    BY <1>3, <2>2, <2>3
<1>7. Active(a) /\ stage[a] \notin Before \cup Meeting
  BY <1>2 DEF Active, Gone, Exchanging, Before, Meeting
<1>8. stage'[a] \notin Before \cup Meeting
  BY <1>4, <1>5, BeyondMeeting
<1> QED
  BY <1>1, <1>6, <1>7, <1>8, PeersConnected

LEMMA WritesPeers ==
    ASSUME TypeOK, OwnershipInv, BarrierInv, NEW a \in Ranks,
           WriteRecord(a) \/ WriteReady(a) \/ Announce(a)
    PROVE  Peers'
<1>1. RankStep(a) /\ UNCHANGED <<backlog, peer>>
  BY DEF RankStep, Run, WriteRecord, WriteReady, Announce
<1>2. stage[a] \in Exchanging \cup InUse
  BY DEF WriteRecord, WriteReady, Announce, Exchanging, InUse
<1>3. \A s \in Sockets : s \in live'[a] => s \in live[a]
  BY TypeParts, SMTT(30) DEF WriteRecord, WriteReady, Announce, Write, Dies, OwnershipTypes
<1>4. {"writePrevious", "readNext", "readyPrevious", "awaitNext", "running"} \subseteq Beyond
  BY DEF Beyond
<1>5. (\E next \in {"writePrevious", "readNext", "readyPrevious", "awaitNext", "running"} :
            Onwards(a, next)) \/ Fails(a) \/ Leaves(a)
  BY WriteLeads, GotoOnwards, DiesLeaves DEF WriteRecord, WriteReady, Announce
<1>6. PICK t \in Sockets :
          \E m : \/ UNCHANGED inbox
                 \/ /\ PeerOpen(a, t)
                    /\ inbox' = [inbox EXCEPT ![peer[a][t]][Other(t)] = Append(@, m)]
  <2>1. "next_socket" \in Sockets /\ "previous_socket" \in Sockets
    BY DEF Sockets
  <2>2. CASE WriteRecord(a) \/ WriteReady(a)
    BY <2>1, <2>2, ZenonT(30) DEF WriteRecord, WriteReady, Write
  <2>3. CASE Announce(a)
    BY <2>1, <2>3 DEF Announce, Other
  <2> QED
    BY <2>2, <2>3
<1> QED
  BY <1>1, <1>2, <1>3, <1>4, <1>5, <1>6, WritePeers

LEMMA HandlePeers ==
    ASSUME TypeOK, OwnershipInv, BarrierInv, NEW a \in Ranks,
           \/ TransitionToRts(a) \/ Configure(a) \/ CreateHandle(a)
           \/ Close(a) \/ Free(a) \/ Return(a) \/ Crash(a)
    PROVE  Peers'
<1>1. RankStep(a) /\ UNCHANGED <<backlog, peer, inbox>>
  BY DEF RankStep, Run, links_vars, TransitionToRts, Configure, CreateHandle, Close,
         Free, Return, Crash
<1>2. NothingArrives
  BY <1>1, SameInboxes DEF BarrierInv
<1>3. OwnershipTypes /\ ControlTypes
  BY TypeParts
<1>4. CASE TransitionToRts(a) \/ Configure(a) \/ CreateHandle(a)
  <2>1. Active(a) /\ stage[a] \notin Before \cup Meeting
    BY <1>4 DEF TransitionToRts, Configure, CreateHandle, Active, Gone, Before, Meeting
  <2>2. stage'[a] \in Beyond \/ Fails(a)
    BY <1>3, <1>4, GotoOnwards, FailFails, StatusNames
       DEF TransitionToRts, Configure, CreateHandle, Onwards, Beyond, ControlTypes
  <2>3. stage'[a] \notin Before \cup Meeting
    BY <2>2 DEF Beyond, Fails, Before, Meeting
  <2>4. \A s \in Sockets : s \in live'[a] => s \in live[a]
    <3>1. UNCHANGED live \/ \E new \in {{"handle", "collectives"}, {"handle"}, {}} : Own(a, new)
      BY <1>4 DEF TransitionToRts, Configure, CreateHandle
    <3> QED
      BY <1>3, <3>1, OwnEffect DEF Sockets
  <2> QED
    BY <1>1, <1>2, <2>1, <2>3, <2>4, PeersConnected
<1>5. CASE Close(a) \/ Free(a) \/ Return(a) \/ Crash(a)
  <2>1. Leaves(a)
    BY <1>3, <1>5, GotoOnwards, DiesLeaves
       DEF Close, Free, Return, Crash, Onwards, Leaves, Gone, ControlTypes
  <2>2. \A s \in Sockets : s \in live'[a] => s \in live[a]
    BY <1>3, <1>5 DEF Close, Free, Return, Crash, Dies, OwnershipTypes
  <2>3. ~Active(a)' /\ ~YetToConnect(a)'
    BY <2>1 DEF Leaves, Gone, Active, YetToConnect, Before
  <2>4. LinksStay(a)
    BY <1>1, <2>2, <2>3, StepOthers DEF LinksStay
  <2> QED
    BY <1>2, <2>4, PeersStay DEF BarrierInv
<1> QED
  BY <1>4, <1>5

LEMMA NextPeers ==
    ASSUME TypeOK, OwnershipInv, BarrierInv, [Next]_vars
    PROVE  Peers'
<1>1. CASE UNCHANGED vars
  BY <1>1 DEF vars, BarrierInv, Peers, PeersInv, Active, YetToConnect, Neighbour
<1>2. ASSUME NEW a \in Ranks, RankStep(a) PROVE Peers'
  BY <1>2, DevicePeers, MeetingPeers, ConnectPeers, WritesPeers, ReadPeers, HandlePeers
     DEF RankStep, Run
<1> QED
  BY <1>1, <1>2 DEF Next, RankStep

-----------------------------------------------------------------------------
(* The theorems.                                                             *)

LEMMA InitBarrier == Init => BarrierInv
<1> SUFFICES ASSUME Init PROVE BarrierInv
  OBVIOUS
<1>1. \A r \in Ranks : /\ stage[r] = "arguments" /\ status[r] # PG_SUCCESS
                       /\ backlog[r] = NoRank /\ live[r] = {}
                       /\ \A s \in Sockets : peer[r][s] = NoRank /\ inbox[r][s] = <<>>
  BY StatusNames DEF Init
<1>2. Peers
  BY <1>1, RingFacts DEF Peers, PeersInv, Sockets
<1>3. Progress
  BY <1>1 DEF Progress, ProgressInv, AfterTransition, Finishing, InUse
<1>4. Streams
  <2>1. \A r \in Ranks, s \in Sockets : Reads(r, s) = 0 /\ Writes(r, s) = 0
    BY <1>1, EarlyCounts DEF EarlyStages, Before
  <2> SUFFICES ASSUME NEW r \in Ranks, NEW s \in Sockets PROVE StreamInv(r, s)
    BY DEF Streams
  <2>2. /\ Len(inbox[r][s]) = 0 /\ Reads(r, s) = 0
        /\ Writes(Neighbour(r, s), Other(s)) = 0
    BY <1>1, <2>1, LinkFacts
  <2> QED
    BY <2>2 DEF StreamInv, MaxReads
<1> QED
  BY <1>2, <1>3, <1>4 DEF BarrierInv

LEMMA NextBarrier == TypeOK /\ OwnershipInv /\ BarrierInv /\ [Next]_vars => BarrierInv'
BY NextStreams, NextPeers, NextProgress DEF BarrierInv

\* Both ready bytes read, only descriptors are left of the neighbours' streams.
LEMMA ThroughBarrier ==
    ASSUME TypeOK, BarrierInv, NEW r \in Ranks, PassedBarrier(r)
    PROVE  /\ dest[r] = Right(r)
           /\ \A s \in Sockets : dest[Neighbour(r, s)] = Right(Neighbour(r, s))
           /\ inbox[r]["previous_socket"] = <<>>
           /\ \A k \in 1..Len(inbox[r]["next_socket"]) :
                 inbox[r]["next_socket"][k] = Descriptor
<1>1. dest[r] = Right(r)
  BY DEF BarrierInv, Progress, ProgressInv, PassedBarrier, AfterTransition, Finishing
<1>2. Known(r) /\ \A s \in Sockets : Reads(r, s) = 2
  BY DEF PassedBarrier, Known, Active, Gone, Reads, ReadAt, ReadTwice, Finishing
<1>3. \A s \in Sockets : StreamInv(r, s) /\ inbox[r][s] \in Seq(Messages)
  BY TypeParts DEF BarrierInv, Streams, LinkTypes
<1>4. \A s \in Sockets : dest[Neighbour(r, s)] = Right(Neighbour(r, s))
  BY <1>2, <1>3 DEF StreamInv
<1>5. inbox[r]["previous_socket"] = <<>>
  <2>1. 2 + Len(inbox[r]["previous_socket"]) <= 2
    BY <1>2, <1>3 DEF StreamInv, MaxReads, Sockets
  <2> QED
    BY <1>3, <2>1 DEF Sockets
<1>6. ASSUME NEW k \in 1..Len(inbox[r]["next_socket"])
      PROVE  inbox[r]["next_socket"][k] = Descriptor
  <2>1. /\ 2 + Len(inbox[r]["next_socket"]) <= 3
        /\ inbox[r]["next_socket"][k] = Stream(NextRank(r), "previous_socket")[2 + k]
    BY <1>2, <1>3, <1>6 DEF StreamInv, MaxReads, Sockets, Neighbour, Other
  <2>2. k = 1
    BY <1>3, <1>6, <2>1 DEF Sockets
  <2> QED
    BY <2>1, <2>2 DEF Stream
<1> QED
  BY <1>1, <1>4, <1>5, <1>6

LEMMA BarrierSafe == TypeOK /\ BarrierInv => ReadyBarrier /\ ControlStreamClean
<1> SUFFICES ASSUME TypeOK, BarrierInv PROVE ReadyBarrier /\ ControlStreamClean
  OBVIOUS
<1>1. ASSUME NEW r \in Ranks, PassedBarrier(r)
      PROVE  /\ dest[r] = [qp_next |-> <<NextRank(r), "qp_prev">>,
                           qp_prev |-> <<PrevRank(r), "qp_next">>]
             /\ dest[NextRank(r)].qp_prev = <<r, "qp_next">>
             /\ dest[PrevRank(r)].qp_next = <<r, "qp_prev">>
             /\ dest[NextRank(r)].qp_next # NoQp /\ dest[PrevRank(r)].qp_prev # NoQp
  <2>1. /\ Neighbour(r, "next_socket") = NextRank(r)
        /\ Neighbour(r, "previous_socket") = PrevRank(r)
        /\ "next_socket" \in Sockets /\ "previous_socket" \in Sockets
    BY DEF Neighbour, Sockets
  <2>2. /\ dest[r] = Right(r) /\ dest[NextRank(r)] = Right(NextRank(r))
        /\ dest[PrevRank(r)] = Right(PrevRank(r))
    BY <1>1, <2>1, ThroughBarrier
  <2>3. NextRank(PrevRank(r)) = r /\ PrevRank(NextRank(r)) = r
    BY RingFacts
  <2>4. /\ Right(NextRank(r)).qp_prev = <<r, "qp_next">>
        /\ Right(PrevRank(r)).qp_next = <<r, "qp_prev">>
    BY <2>3 DEF Right
  <2>5. \A q : Right(q).qp_next # NoQp /\ Right(q).qp_prev # NoQp
    BY DEF Right, NoQp
  <2> QED
    BY <2>2, <2>4, <2>5 DEF Right
<1>2. ReadyBarrier
  BY <1>1 DEF ReadyBarrier
<1>3. ControlStreamClean
  BY ThroughBarrier DEF ControlStreamClean
<1> QED
  BY <1>2, <1>3

\* A rank that is through the barrier is connected to queue pairs that are
\* ready and connected to its own (the comment at process_group_api.cpp:429).
THEOREM BarrierHolds == Spec => []ReadyBarrier
BY InitTypes, NextTypes, InitOwnership, NextOwnership, InitBarrier, NextBarrier,
   BarrierSafe, PTL DEF Spec

\* The exchange and the barrier leave nothing of theirs on the sockets that
\* post_receive_previous and post_send_next then use for descriptors.
THEOREM ControlStreamsClean == Spec => []ControlStreamClean
BY InitTypes, NextTypes, InitOwnership, NextOwnership, InitBarrier, NextBarrier,
   BarrierSafe, PTL DEF Spec

-----------------------------------------------------------------------------
(* Failing for a reason: the invariant.                                      *)

\* What has arrived at a socket, read or not.
Arrived(r, socket) == Reads(r, socket) + Len(inbox[r][socket])

\* Rank r's call is under way or has succeeded, and of its two calls for
\* sockets the one that is through has got its socket.
SmoothRank(r) ==
    /\ status[r] \notin Errors
    /\ ~Active(r) => status[r] = PG_SUCCESS
    /\ stage[r] = "connect" /\ ~ConnectsFirst(r) => "previous_socket" \in live[r]
    /\ stage[r] \in {"listen", "accept"} /\ ConnectsFirst(r) => "next_socket" \in live[r]

\* A socket has its other end until the neighbour is on its way out, and then
\* the neighbour has written all the exchange and the barrier ask of it; and no
\* more arrives than a neighbour has written.
SmoothLink(r, socket) ==
    LET p == Neighbour(r, socket)
    IN  /\ Attached(r, socket) => Attached(p, Other(socket)) \/ ~Active(p)
        /\ Attached(r, socket) /\ ~Active(p) => Arrived(r, socket) >= 2
        /\ Active(p) => Arrived(r, socket) <= Writes(p, Other(socket))

Smooth == \A r \in Ranks : SmoothRank(r) /\ \A s \in Sockets : SmoothLink(r, s)

\* While nothing has gone wrong by itself.
SmoothInv == faults = {} => Smooth

LEMMA ArrivedCounts ==
    ASSUME TypeOK, NEW r \in Ranks, NEW s \in Sockets
    PROVE  Arrived(r, s) \in Nat /\ Writes(r, s) \in Nat
<1>1. inbox[r][s] \in Seq(Messages)
  BY TypeParts DEF LinkTypes
<1>2. Len(inbox[r][s]) \in Nat /\ Reads(r, s) \in Nat /\ Writes(r, s) \in Nat
  BY <1>1 DEF Reads, ReadAt, Writes, WrittenAt
<1>3. \A m, n \in Nat : m + n \in Nat
  OBVIOUS
<1> QED
  BY <1>2, <1>3, Zenon DEF Arrived

LEMMA ArrivedCountsNext ==
    ASSUME TypeOK', NEW r \in Ranks, NEW s \in Sockets
    PROVE  Arrived(r, s)' \in Nat /\ Writes(r, s)' \in Nat
<1>1. inbox'[r][s] \in Seq(Messages)
  BY DEF TypeOK
<1>2. Len(inbox'[r][s]) \in Nat /\ Reads(r, s)' \in Nat /\ Writes(r, s)' \in Nat
  BY <1>1 DEF Reads, ReadAt, Writes, WrittenAt
<1>3. \A m, n \in Nat : m + n \in Nat
  OBVIOUS
<1> QED
  BY <1>2, <1>3, Zenon DEF Arrived

\* What a step of rank a, nothing going wrong, may do to the sockets: it keeps
\* its own until it is on its way out, which is only when it was in use; what
\* has arrived at it stays; and no more arrives at a neighbour than it writes.
Smoothly(a) ==
    /\ OthersStay(a)
    /\ \A p \in Ranks \ {a}, s \in Sockets :
          /\ Attached(p, s)' <=> Attached(p, s)
          /\ Neighbour(p, s) # a => Arrived(p, s)' = Arrived(p, s)
    /\ \A s \in Sockets :
          /\ Arrived(a, s)' = Arrived(a, s)
          /\ Attached(a, s)' => Attached(a, s)
          /\ Active(a)' /\ Attached(a, s) => Attached(a, s)'
    /\ Active(a)' => Active(a)
    /\ Active(a) /\ ~Active(a)' => stage[a] \in InUse
    /\ \A t \in Sockets :
          /\ Arrived(Neighbour(a, t), Other(t))' >= Arrived(Neighbour(a, t), Other(t))
          /\ Active(a)' => Arrived(Neighbour(a, t), Other(t))' - Arrived(Neighbour(a, t), Other(t))
                              <= Writes(a, t)' - Writes(a, t)

\* A rank in use has written its record and its ready byte to both.
LEMMA InUseWrites ==
    ASSUME NEW a, stage[a] \in InUse, NEW t \in Sockets
    PROVE  Writes(a, t) >= 2
BY DEF Writes, WrittenAt, WrittenTwice, InUse, Finishing

LEMMA SmoothKeeps ==
    ASSUME TypeOK, TypeOK', Streams, Smooth, NEW a \in Ranks, Smoothly(a), SmoothRank(a)'
    PROVE  Smooth'
<1>1. ASSUME NEW r \in Ranks \ {a} PROVE SmoothRank(r)'
  <2>1. SmoothRank(r)
    BY DEF Smooth
  <2> QED
    BY <2>1 DEF Smoothly, OthersStay, SmoothRank, Active
<1>2. ASSUME NEW s \in Sockets PROVE SmoothLink(a, s)'
  <2> DEFINE p == Neighbour(a, s)
  <2>1. p \in Ranks \ {a} /\ Other(s) \in Sockets
    BY LinkFacts
  <2>2. SmoothLink(a, s)
    BY DEF Smooth
  <2>3. Active(p)' = Active(p) /\ Writes(p, Other(s))' = Writes(p, Other(s))
    BY <2>1 DEF Smoothly, OthersStay, Active, Writes
  <2>4. /\ Arrived(a, s)' = Arrived(a, s)
        /\ Attached(a, s)' => Attached(a, s)
        /\ Attached(p, Other(s))' <=> Attached(p, Other(s))
    BY <2>1 DEF Smoothly
  <2> QED
    BY <2>2, <2>3, <2>4 DEF SmoothLink
<1>3. ASSUME NEW t \in Sockets PROVE SmoothLink(Neighbour(a, t), Other(t))'
  <2>1. PICK q \in Ranks \ {a}, o \in Sockets :
            q = Neighbour(a, t) /\ o = Other(t) /\ Neighbour(q, o) = a /\ Other(o) = t
    BY LinkFacts
  <2>2. SmoothLink(q, o) /\ StreamInv(q, o) /\ Known(q)
    BY DEF Smooth, SmoothRank, Streams, Known
  <2>3. /\ Attached(q, o)' <=> Attached(q, o)
        /\ Active(a)' /\ Attached(a, t) => Attached(a, t)'
        /\ Active(a)' => Active(a)
        /\ Active(a) /\ ~Active(a)' => stage[a] \in InUse
        /\ Arrived(q, o)' >= Arrived(q, o)
        /\ Active(a)' => Arrived(q, o)' - Arrived(q, o) <= Writes(a, t)' - Writes(a, t)
    BY <2>1 DEF Smoothly
  <2>4. /\ Arrived(q, o) \in Nat /\ Arrived(q, o)' \in Nat
        /\ Writes(a, t) \in Nat /\ Writes(a, t)' \in Nat
    BY ArrivedCounts, ArrivedCountsNext
  <2>5. Attached(q, o)' => Attached(a, t)' \/ ~Active(a)'
    BY <2>1, <2>2, <2>3 DEF SmoothLink
  <2>6. Attached(q, o)' /\ ~Active(a)' => Arrived(q, o)' >= 2
    <3>1. Attached(q, o) /\ ~Active(a) => Arrived(q, o) >= 2
      BY <2>1, <2>2 DEF SmoothLink
    <3>2. Attached(q, o) /\ Active(a) => Arrived(q, o) = Writes(a, t)
      BY <2>1, <2>2 DEF StreamInv, Arrived
    <3>3. Active(a) /\ ~Active(a)' => Writes(a, t) >= 2
      BY <2>3, InUseWrites
    <3> QED
      BY <2>3, <2>4, <3>1, <3>2, <3>3
  <2>7. Active(a)' => Arrived(q, o)' <= Writes(a, t)'
    <3>1. Active(a) => Arrived(q, o) <= Writes(a, t)
      BY <2>1, <2>2 DEF SmoothLink
    <3> QED
      BY <2>3, <2>4, <3>1
  <2>8. SmoothLink(q, o)'
    BY <2>1, <2>5, <2>6, <2>7 DEF SmoothLink
  <2> QED
    BY <2>1, <2>8
<1>4. ASSUME NEW r \in Ranks, NEW s \in Sockets PROVE SmoothLink(r, s)'
  <2>1. CASE r = a
    BY <1>2, <2>1
  <2>2. CASE Neighbour(r, s) = a
    <3>1. Neighbour(a, Other(s)) = r /\ Other(Other(s)) = s /\ Other(s) \in Sockets
      BY <2>2, LinkFacts
    <3>2. SmoothLink(Neighbour(a, Other(s)), Other(Other(s)))'
      BY <1>3, <3>1
    <3> QED
      BY <3>1, <3>2
  <2>3. CASE r # a /\ Neighbour(r, s) # a
    <3> DEFINE p == Neighbour(r, s)
    <3>1. p \in Ranks \ {a} /\ Other(s) \in Sockets /\ r \in Ranks \ {a}
      BY <2>3, LinkFacts
    <3>2. SmoothLink(r, s)
      BY DEF Smooth
    <3>3. Active(p)' = Active(p) /\ Writes(p, Other(s))' = Writes(p, Other(s))
      BY <3>1 DEF Smoothly, OthersStay, Active, Writes
    <3>4. /\ Arrived(r, s)' = Arrived(r, s)
          /\ Attached(r, s)' <=> Attached(r, s)
          /\ Attached(p, Other(s))' <=> Attached(p, Other(s))
      BY <2>3, <3>1 DEF Smoothly
    <3> QED
      BY <3>2, <3>3, <3>4 DEF SmoothLink
  <2> QED
    BY <2>1, <2>2, <2>3
<1> QED
  BY <1>1, <1>4 DEF Smooth

\* A rank that keeps its sockets and moves nothing in them.
LEMMA SmoothQuiet ==
    ASSUME TypeOK, NEW a \in Ranks, Still(a), UNCHANGED inbox, Active(a), Active(a)',
           \A s \in Sockets : /\ Attached(a, s)' <=> Attached(a, s)
                              /\ Reads(a, s)' = Reads(a, s) /\ Writes(a, s)' = Writes(a, s)
    PROVE  Smoothly(a)
<1>1. ASSUME NEW p \in Ranks \ {a}, NEW s \in Sockets
      PROVE  /\ Attached(p, s)' <=> Attached(p, s)
             /\ Arrived(p, s)' = Arrived(p, s)
  <2>1. /\ Reads(p, s)' = Reads(p, s) /\ stage'[p] = stage[p] /\ live'[p] = live[p]
        /\ backlog'[p] = backlog[p]
    BY DEF Still, OthersStay, Reads
  <2> QED
    BY <2>1 DEF Attached, Arrived
<1>2. \A s \in Sockets : Arrived(a, s)' = Arrived(a, s)
  BY DEF Arrived
<1>3. \A t \in Sockets : /\ Neighbour(a, t) \in Ranks \ {a} /\ Other(t) \in Sockets
                         /\ Arrived(Neighbour(a, t), Other(t)) \in Nat /\ Writes(a, t) \in Nat
  BY LinkFacts, ArrivedCounts
<1>4. ASSUME NEW t \in Sockets
      PROVE  /\ Arrived(Neighbour(a, t), Other(t))' >= Arrived(Neighbour(a, t), Other(t))
             /\ Arrived(Neighbour(a, t), Other(t))' - Arrived(Neighbour(a, t), Other(t))
                    <= Writes(a, t)' - Writes(a, t)
  <2>1. Arrived(Neighbour(a, t), Other(t))' = Arrived(Neighbour(a, t), Other(t))
    BY <1>1, <1>3
  <2> QED
    BY <1>3, <2>1
<1>5. OthersStay(a)
  BY DEF Still
<1> QED
  BY <1>1, <1>2, <1>4, <1>5 DEF Smoothly

\* A rank on its way out, having used its group, gives back its sockets.
LEMMA SmoothLeaves ==
    ASSUME TypeOK, NEW a \in Ranks, Still(a), UNCHANGED inbox,
           stage[a] \in InUse \/ ~Active(a), ~Active(a)',
           status[a] = PG_SUCCESS, status'[a] = PG_SUCCESS, live'[a] \subseteq live[a]
    PROVE  Smoothly(a)
<1>1. ASSUME NEW p \in Ranks \ {a}, NEW s \in Sockets
      PROVE  /\ Attached(p, s)' <=> Attached(p, s)
             /\ Arrived(p, s)' = Arrived(p, s)
  <2>1. /\ Reads(p, s)' = Reads(p, s) /\ stage'[p] = stage[p] /\ live'[p] = live[p]
        /\ backlog'[p] = backlog[p]
    BY DEF Still, OthersStay, Reads
  <2> QED
    BY <2>1 DEF Attached, Arrived
<1>2. \A s \in Sockets : Arrived(a, s)' = Arrived(a, s)
  BY DEF Arrived, Reads
<1>3. \A t \in Sockets : /\ Neighbour(a, t) \in Ranks \ {a} /\ Other(t) \in Sockets
                         /\ Arrived(Neighbour(a, t), Other(t)) \in Nat
  BY LinkFacts, ArrivedCounts
<1>4. ASSUME NEW t \in Sockets
      PROVE  Arrived(Neighbour(a, t), Other(t))' >= Arrived(Neighbour(a, t), Other(t))
  <2>1. Arrived(Neighbour(a, t), Other(t))' = Arrived(Neighbour(a, t), Other(t))
    BY <1>1, <1>3
  <2> QED
    BY <1>3, <2>1
<1>5. stage'[a] # "accept"
  BY DEF Active, Gone
<1>6. \A s \in Sockets : Attached(a, s)' => Attached(a, s)
  BY <1>5 DEF Attached
<1>7. OthersStay(a)
  BY DEF Still
<1> QED
  BY <1>1, <1>2, <1>4, <1>6, <1>7 DEF Smoothly

\* A rank writes to a socket, or what it writes is lost.
LEMMA SmoothWrites ==
    ASSUME TypeOK, NEW a \in Ranks, NEW t \in Sockets, NEW m, NEW next,
           OthersStay(a), UNCHANGED <<backlog, live>>, Goto(a, next),
           stage[a] \in Exchanging \cup InUse, next \in Exchanging \cup InUse,
           WrittenAt(next, t) = WrittenAt(stage[a], t) + 1,
           WrittenAt(next, Other(t)) = WrittenAt(stage[a], Other(t)),
           \A s \in Sockets : ReadAt(next, s) = ReadAt(stage[a], s),
           \/ inbox' = [inbox EXCEPT ![Neighbour(a, t)][Other(t)] = Append(@, m)]
           \/ UNCHANGED inbox
    PROVE  Smoothly(a)
<1>1. PICK q \in Ranks \ {a}, o \in Sockets :
          q = Neighbour(a, t) /\ o = Other(t) /\ o # t
  BY LinkFacts
<1>2. stage'[a] = next /\ status' = status
  BY TypeParts, GotoEffect DEF Goto
<1>3. Active(a) /\ Active(a)'
  BY <1>2 DEF Active, Exchanging, InUse, Gone
<1>4. \A s \in Sockets : Attached(a, s)' <=> Attached(a, s)
  BY <1>2 DEF Attached, Exchanging, InUse
<1>5. /\ \A s \in Sockets : Reads(a, s)' = Reads(a, s)
      /\ Writes(a, t)' = Writes(a, t) + 1 /\ Writes(a, Other(t))' = Writes(a, Other(t))
  BY <1>2 DEF Reads, Writes
<1>6. inbox \in [Ranks -> [Sockets -> Seq(Messages)]]
  BY TypeParts DEF LinkTypes
<1>7. /\ \A r \in Ranks, s \in Sockets : r # q \/ s # o => inbox'[r][s] = inbox[r][s]
      /\ inbox'[q][o] = Append(inbox[q][o], m) \/ inbox'[q][o] = inbox[q][o]
  BY <1>1, <1>6
<1>8. ASSUME NEW p \in Ranks \ {a}, NEW s \in Sockets
      PROVE  /\ Attached(p, s)' <=> Attached(p, s)
             /\ Reads(p, s)' = Reads(p, s)
  <2>1. /\ Reads(p, s)' = Reads(p, s) /\ stage'[p] = stage[p] /\ live'[p] = live[p]
        /\ backlog'[p] = backlog[p]
    BY DEF OthersStay, Reads
  <2> QED
    BY <2>1 DEF Attached
<1>9. \A p \in Ranks \ {a}, s \in Sockets : p # q \/ s # o => Arrived(p, s)' = Arrived(p, s)
  BY <1>7, <1>8 DEF Arrived
<1>10. \A s \in Sockets : Arrived(a, s)' = Arrived(a, s)
  BY <1>1, <1>5, <1>7 DEF Arrived
<1>11. Arrived(q, o)' = Arrived(q, o) \/ Arrived(q, o)' = Arrived(q, o) + 1
  <2>1. Reads(q, o)' = Reads(q, o) /\ Reads(q, o) \in Nat
    BY <1>8 DEF Reads, ReadAt
  <2>2. Len(inbox'[q][o]) = Len(inbox[q][o]) + 1 \/ Len(inbox'[q][o]) = Len(inbox[q][o])
    BY <1>6, <1>7
  <2>3. Len(inbox[q][o]) \in Nat
    BY <1>6
  <2>4. \A k, n \in Nat : k + (n + 1) = (k + n) + 1
    OBVIOUS
  <2> QED
    BY <2>1, <2>2, <2>3, <2>4, Zenon DEF Arrived
<1>12. ASSUME NEW u \in Sockets
       PROVE  /\ Arrived(Neighbour(a, u), Other(u))' >= Arrived(Neighbour(a, u), Other(u))
              /\ Arrived(Neighbour(a, u), Other(u))' - Arrived(Neighbour(a, u), Other(u))
                     <= Writes(a, u)' - Writes(a, u)
  <2>1. /\ Neighbour(a, u) \in Ranks \ {a} /\ Other(u) \in Sockets
        /\ Arrived(Neighbour(a, u), Other(u)) \in Nat /\ Writes(a, u) \in Nat
    BY LinkFacts, ArrivedCounts
  <2>2. CASE u = t
    BY <1>1, <1>5, <1>11, <2>1, <2>2
  <2>3. CASE u # t
    <3>1. u = Other(t) /\ Other(u) # o
      BY <1>1, <2>3 DEF Sockets, Other
    <3>2. Arrived(Neighbour(a, u), Other(u))' = Arrived(Neighbour(a, u), Other(u))
      BY <1>9, <2>1, <3>1
    <3> QED
      BY <1>5, <2>1, <3>1, <3>2
  <2> QED
    BY <2>2, <2>3
<1>13. \A p \in Ranks \ {a}, s \in Sockets : Neighbour(p, s) # a => p # q \/ s # o
  BY <1>1, LinkFacts
<1> QED
  BY <1>3, <1>4, <1>8, <1>9, <1>10, <1>12, <1>13 DEF Smoothly

\* A rank reads a message and goes on.
LEMMA SmoothReads ==
    ASSUME TypeOK, NEW a \in Ranks, NEW s \in Sockets, NEW next, TakeMessage(a, s),
           OthersStay(a), UNCHANGED <<backlog, live>>, Goto(a, next), status[a] # PG_SUCCESS,
           stage[a] \in Exchanging, next \in Exchanging \cup Finishing,
           ReadAt(next, s) = ReadAt(stage[a], s) + 1,
           ReadAt(next, Other(s)) = ReadAt(stage[a], Other(s)),
           \A t \in Sockets : WrittenAt(next, t) = WrittenAt(stage[a], t)
    PROVE  Smoothly(a)
<1>1. stage'[a] = next /\ status' = status
  BY TypeParts, GotoEffect DEF Goto
<1>2. Active(a) /\ Active(a)'
  BY <1>1 DEF Active, Exchanging, Finishing, Gone
<1>3. \A t \in Sockets : Attached(a, t)' <=> Attached(a, t)
  BY <1>1 DEF Attached, Exchanging, Finishing
<1>4. /\ Reads(a, s)' = Reads(a, s) + 1 /\ Reads(a, Other(s))' = Reads(a, Other(s))
      /\ \A t \in Sockets : Writes(a, t)' = Writes(a, t)
  BY <1>1 DEF Reads, Writes
<1>5. inbox \in [Ranks -> [Sockets -> Seq(Messages)]]
  BY TypeParts DEF LinkTypes
<1>6. /\ \A p \in Ranks \ {a} : inbox'[p] = inbox[p]
      /\ inbox'[a][s] = Tail(inbox[a][s]) /\ inbox[a][s] # <<>>
      /\ inbox'[a][Other(s)] = inbox[a][Other(s)]
  BY <1>5, LinkFacts DEF TakeMessage
<1>7. Arrived(a, s)' = Arrived(a, s)
  <2>1. Len(inbox[a][s]) \in Nat /\ Reads(a, s) \in Nat
    BY <1>5 DEF Reads, ReadAt
  <2>2. Len(inbox[a][s]) = Len(inbox'[a][s]) + 1 /\ Len(inbox'[a][s]) \in Nat
    BY <1>5, <1>6
  <2>3. \A k, n \in Nat : (k + 1) + n = k + (n + 1)
    OBVIOUS
  <2> QED
    BY <1>4, <2>1, <2>2, <2>3, Zenon DEF Arrived
<1>8. Arrived(a, Other(s))' = Arrived(a, Other(s))
  BY <1>4, <1>6 DEF Arrived
<1>9. \A t \in Sockets : Arrived(a, t)' = Arrived(a, t)
  BY <1>7, <1>8 DEF Sockets, Other
<1>10. ASSUME NEW p \in Ranks \ {a}, NEW u \in Sockets
       PROVE  /\ Attached(p, u)' <=> Attached(p, u)
              /\ Arrived(p, u)' = Arrived(p, u)
  <2>1. /\ Reads(p, u)' = Reads(p, u) /\ stage'[p] = stage[p] /\ live'[p] = live[p]
        /\ backlog'[p] = backlog[p]
    BY DEF OthersStay, Reads
  <2> QED
    BY <1>6, <2>1 DEF Attached, Arrived
<1>11. ASSUME NEW t \in Sockets
       PROVE  /\ Arrived(Neighbour(a, t), Other(t))' >= Arrived(Neighbour(a, t), Other(t))
              /\ Arrived(Neighbour(a, t), Other(t))' - Arrived(Neighbour(a, t), Other(t))
                     <= Writes(a, t)' - Writes(a, t)
  <2>1. /\ Neighbour(a, t) \in Ranks \ {a} /\ Other(t) \in Sockets
        /\ Arrived(Neighbour(a, t), Other(t)) \in Nat /\ Writes(a, t) \in Nat
    BY LinkFacts, ArrivedCounts
  <2>2. Arrived(Neighbour(a, t), Other(t))' = Arrived(Neighbour(a, t), Other(t))
    BY <1>10, <2>1
  <2> QED
    BY <1>4, <2>1, <2>2
<1> QED
  BY <1>2, <1>3, <1>9, <1>10, <1>11 DEF Smoothly

-----------------------------------------------------------------------------
(* The steps, nothing going wrong.                                           *)

LEMMA NoFault ==
    ASSUME NEW r, faults' = {}
    PROVE  ~Fault(r) /\ faults' # faults \cup {r}
BY DEF Fault

LEMMA DeviceSmooth ==
    ASSUME TypeOK, OwnershipInv, BarrierInv, Smooth, faults' = {}, NEW a \in Ranks,
           \/ CheckArguments(a) \/ GetDeviceList(a) \/ OpenDevice(a) \/ AllocPd(a) \/ QueryPort(a)
           \/ CreateTransport(a) \/ CreateQps(a)
    PROVE  Smoothly(a) /\ SmoothRank(a)'
<1>1. ControlTypes /\ OwnershipTypes /\ SmoothRank(a)
  BY TypeParts DEF Smooth
<1>2. stage[a] \in Before
  BY DEF Before, CheckArguments, GetDeviceList, OpenDevice, AllocPd, QueryPort,
         CreateTransport, CreateQps
<1>3. stage[a] \in EarlyStages /\ status[a] # PG_SUCCESS
  BY <1>2, EarlyStatus DEF EarlyStages, Before, InUse, Gone, BarrierInv, Progress
<1>4. Still(a) /\ UNCHANGED inbox
  <2>1. UNCHANGED links_vars
    BY DEF CheckArguments, GetDeviceList, OpenDevice, AllocPd, QueryPort, CreateTransport, CreateQps
  <2> QED
    BY <2>1, StepOthers DEF Still, links_vars, RankStep, Run
<1>5. \E next \in {"device", "open", "pd", "port", "transport", "qps", "connect", "listen"} :
          Goto(a, next) /\ (next \in {"connect", "listen"} =>
                                next = IF ConnectsFirst(a) THEN "connect" ELSE "listen")
  BY NoFault DEF CheckArguments, GetDeviceList, OpenDevice, AllocPd, QueryPort,
                 CreateTransport, CreateQps
<1>6. /\ stage'[a] \in {"device", "open", "pd", "port", "transport", "qps", "connect", "listen"}
      /\ stage'[a] = "connect" => ConnectsFirst(a)
      /\ stage'[a] = "listen" => ~ConnectsFirst(a)
      /\ status' = status
  BY <1>1, <1>5, GotoEffect DEF Goto
<1>7. live'[a] \cap Sockets = live[a] \cap Sockets
  BY <1>1, DeviceSockets
<1>8. \A s \in Sockets : Attached(a, s)' <=> Attached(a, s)
  BY <1>2, <1>6, <1>7 DEF Attached, Before
<1>9. /\ Active(a) /\ \A s \in Sockets : Reads(a, s) = 0 /\ Writes(a, s) = 0
  BY <1>3, EarlyCounts
<1>10. Active(a)'
  BY <1>6 DEF Active, Gone
<1>11. ASSUME NEW s \in Sockets PROVE Reads(a, s)' = 0 /\ Writes(a, s)' = 0
  <2>1. /\ stage'[a] \notin AfterTransition \cup Finishing \cup InUse
        /\ stage'[a] \notin {"transition", "readPrevious", "awaitNext", "awaitPrevious",
                             "readNext", "writePrevious", "readyPrevious", "running"}
    BY <1>6 DEF AfterTransition, Finishing, InUse
  <2>2. /\ stage'[a] \notin ReadOnce(s) /\ stage'[a] \notin ReadTwice(s)
        /\ stage'[a] \notin WrittenOnce(s) /\ stage'[a] \notin WrittenTwice(s)
    BY <2>1 DEF ReadOnce, ReadTwice, WrittenOnce, WrittenTwice
  <2> QED
    BY <1>3, <1>6, <2>1, <2>2 DEF Reads, Writes, ReadAt, WrittenAt
<1>12. Smoothly(a)
  BY <1>4, <1>8, <1>9, <1>10, <1>11, SmoothQuiet
<1>13. SmoothRank(a)'
  BY <1>1, <1>6, <1>10 DEF SmoothRank, ConnectsFirst
<1> QED
  BY <1>12, <1>13

\* What leaving a call for a socket leads to, all sockets asked for being there.
LEMMA SmoothLeave ==
    ASSUME TypeOK, NEW a \in Ranks, NEW first, NEW sockets,
           LeaveSocketCall(a, first, sockets), first \/ sockets = Sockets
    PROVE  /\ status' = status
           /\ stage'[a] = IF first THEN IF ConnectsFirst(a) THEN "listen" ELSE "connect"
                          ELSE "writeNext"
BY TypeParts, GotoEffect DEF LeaveSocketCall, Goto

\* Nothing read or written before the first write.
LEMMA EarlyCountsNext ==
    ASSUME NEW a, stage'[a] \in {"listen", "accept", "connect", "writeNext"},
           status'[a] # PG_SUCCESS, NEW s \in Sockets
    PROVE  Active(a)' /\ Reads(a, s)' = 0 /\ Writes(a, s)' = 0
<1>1. /\ stage'[a] \notin AfterTransition \cup Finishing \cup InUse
      /\ stage'[a] \notin {"transition", "readPrevious", "awaitNext", "awaitPrevious",
                           "readNext", "writePrevious", "readyPrevious", "running"}
  BY DEF AfterTransition, Finishing, InUse
<1>2. /\ stage'[a] \notin ReadOnce(s) /\ stage'[a] \notin ReadTwice(s)
      /\ stage'[a] \notin WrittenOnce(s) /\ stage'[a] \notin WrittenTwice(s)
  BY <1>1 DEF ReadOnce, ReadTwice, WrittenOnce, WrittenTwice
<1>3. Active(a)'
  BY DEF Active, Gone
<1> QED
  BY <1>1, <1>2, <1>3 DEF Reads, Writes, ReadAt, WrittenAt

LEMMA ListenSmooth ==
    ASSUME TypeOK, OwnershipInv, BarrierInv, Smooth, faults' = {}, NEW a \in Ranks, Listen(a)
    PROVE  Smoothly(a) /\ SmoothRank(a)'
<1>1. ControlTypes /\ SmoothRank(a)
  BY TypeParts DEF Smooth
<1>2. /\ stage[a] = "listen" /\ Goto(a, "accept")
      /\ UNCHANGED <<live, backlog, inbox>>
  BY NoFault DEF Listen, links_vars
<1>3. stage'[a] = "accept" /\ status' = status
  BY <1>1, <1>2, GotoEffect DEF Goto
<1>4. stage[a] \in EarlyStages /\ status[a] # PG_SUCCESS
  BY <1>2, EarlyStatus DEF EarlyStages, Meeting, InUse, Gone, BarrierInv, Progress
<1>5. Still(a)
  BY <1>2, StepOthers DEF Still, RankStep, Run
<1>6. Active(a) /\ \A s \in Sockets : Reads(a, s) = 0 /\ Writes(a, s) = 0
  BY <1>4, EarlyCounts
<1>7. \A s \in Sockets : Active(a)' /\ Reads(a, s)' = 0 /\ Writes(a, s)' = 0
  BY <1>3, <1>4, EarlyCountsNext
<1>8. backlog[a] = NoRank
  BY <1>2, <1>6 DEF BarrierInv, Peers, PeersInv
<1>9. \A s \in Sockets : Attached(a, s)' <=> Attached(a, s)
  BY <1>2, <1>8 DEF Attached, NoRank
<1>10. Active(a)'
  BY <1>7 DEF Sockets
<1>11. Smoothly(a)
  BY <1>2, <1>5, <1>6, <1>7, <1>9, <1>10, SmoothQuiet
<1>12. SmoothRank(a)'
  BY <1>1, <1>2, <1>3, <1>10 DEF SmoothRank, ConnectsFirst
<1> QED
  BY <1>11, <1>12

LEMMA AcceptSmooth ==
    ASSUME TypeOK, OwnershipInv, BarrierInv, Smooth, faults' = {}, NEW a \in Ranks, Accept(a)
    PROVE  Smoothly(a) /\ SmoothRank(a)'
<1>1. ControlTypes /\ OwnershipTypes /\ SmoothRank(a)
  BY TypeParts DEF Smooth
<1>2. /\ stage[a] = "accept" /\ backlog[a] # NoRank
      /\ backlog' = [backlog EXCEPT ![a] = NoRank]
      /\ Own(a, {"previous_socket"})
      /\ LeaveSocketCall(a, ~ConnectsFirst(a), (live[a] \cap Sockets) \cup {"previous_socket"})
      /\ UNCHANGED inbox
  BY NoFault DEF Accept
<1>3. live'[a] = live[a] \cup {"previous_socket"}
  BY <1>1, <1>2, OwnEffect
<1>4. ~ConnectsFirst(a) \/ (live[a] \cap Sockets) \cup {"previous_socket"} = Sockets
  BY <1>1, <1>2 DEF SmoothRank, Sockets
<1>5. /\ status' = status
      /\ stage'[a] = IF ConnectsFirst(a) THEN "writeNext" ELSE "connect"
  BY <1>2, <1>4, SmoothLeave
<1>6. stage[a] \in EarlyStages /\ status[a] # PG_SUCCESS
  BY <1>2, EarlyStatus DEF EarlyStages, Meeting, InUse, Gone, BarrierInv, Progress
<1>7. Still(a)
  <2>1. backlog \in [Ranks -> Ranks \cup {NoRank}]
    BY TypeParts DEF LinkTypes
  <2> QED
    BY <1>2, <2>1, StepOthers DEF Still, RankStep, Run
<1>8. Active(a) /\ \A s \in Sockets : Reads(a, s) = 0 /\ Writes(a, s) = 0
  BY <1>6, EarlyCounts
<1>9. \A s \in Sockets : Active(a)' /\ Reads(a, s)' = 0 /\ Writes(a, s)' = 0
  BY <1>5, <1>6, EarlyCountsNext
<1>10. \A s \in Sockets : Attached(a, s)' <=> Attached(a, s)
  BY <1>2, <1>3, <1>5 DEF Attached, Sockets
<1>11. Active(a)'
  BY <1>9 DEF Sockets
<1>12. Smoothly(a)
  BY <1>2, <1>7, <1>8, <1>9, <1>10, <1>11, SmoothQuiet
<1>13. SmoothRank(a)'
  BY <1>1, <1>3, <1>5, <1>11 DEF SmoothRank, ConnectsFirst
<1> QED
  BY <1>12, <1>13

\* The transition to RTS, the configuration and the handle.
LEMMA HandleSmooth ==
    ASSUME TypeOK, OwnershipInv, BarrierInv, Smooth, faults' = {}, NEW a \in Ranks,
           TransitionToRts(a) \/ Configure(a) \/ CreateHandle(a)
    PROVE  Smoothly(a) /\ SmoothRank(a)'
<1>1. ControlTypes /\ OwnershipTypes /\ SmoothRank(a)
  BY TypeParts DEF Smooth
<1>2. \/ stage[a] = "transition" /\ stage'[a] = "readyNext" /\ status' = status
      \/ stage[a] = "configure" /\ stage'[a] = "create" /\ status' = status
      \/ stage[a] = "create" /\ stage'[a] = "connected" /\ status'[a] = PG_SUCCESS
  <2>1. CASE TransitionToRts(a)
    BY <1>1, <2>1, NoFault, GotoEffect DEF TransitionToRts, Goto
  <2>2. CASE Configure(a)
    BY <1>1, <2>2, NoFault, GotoEffect DEF Configure, Goto
  <2>3. CASE CreateHandle(a)
    BY <1>1, <2>3, NoFault DEF CreateHandle, TypeOK
  <2> QED
    BY <2>1, <2>2, <2>3
<1>3. UNCHANGED <<inbox, backlog>> /\ live'[a] \cap Sockets = live[a] \cap Sockets
  <2>1. CASE TransitionToRts(a) \/ Configure(a)
    BY <2>1 DEF TransitionToRts, Configure, links_vars
  <2>2. CASE CreateHandle(a)
    <3>1. Own(a, {"handle", "collectives"}) /\ UNCHANGED <<inbox, backlog>>
      BY <2>2, NoFault DEF CreateHandle, links_vars
    <3> QED
      BY <1>1, <3>1, OwnEffect DEF Sockets
  <2> QED
    BY <2>1, <2>2
<1>4. status[a] # PG_SUCCESS
  BY <1>2, EarlyStatus DEF InUse, Gone, BarrierInv, Progress
<1>5. Still(a)
  BY <1>3, StepOthers DEF Still, RankStep, Run
<1>6. Active(a) /\ Active(a)'
  BY <1>2 DEF Active, Gone
<1>7. \A s \in Sockets : Attached(a, s)' <=> Attached(a, s)
  BY <1>2, <1>3 DEF Attached
<1>8. \A s \in Sockets : Reads(a, s)' = Reads(a, s)
  BY <1>2, <1>4 DEF Reads, ReadAt, ReadOnce, ReadTwice, AfterTransition, Finishing, InUse
<1>9. \A s \in Sockets : Writes(a, s)' = Writes(a, s)
  BY <1>2 DEF Writes, WrittenAt, WrittenOnce, WrittenTwice, AfterTransition, Finishing, InUse
<1>10. Smoothly(a)
  BY <1>3, <1>5, <1>6, <1>7, <1>8, <1>9, SmoothQuiet
<1>11. SmoothRank(a)'
  BY <1>1, <1>2, <1>6, StatusNames DEF SmoothRank
<1> QED
  BY <1>10, <1>11

\* Closing the group, giving back what it owned and returning.
LEMMA CloseSmooth ==
    ASSUME TypeOK, OwnershipInv, BarrierInv, Smooth, NEW a \in Ranks,
           Close(a) \/ Free(a) \/ Return(a)
    PROVE  Smoothly(a) /\ SmoothRank(a)'
<1>1. ControlTypes /\ OwnershipTypes /\ SmoothRank(a)
  BY TypeParts DEF Smooth
<1>2. status[a] = PG_SUCCESS /\ UNCHANGED status
  <2>1. stage[a] \in InUse \cup {"freeing"} /\ UNCHANGED status
    BY DEF Close, Free, Return, Goto, InUse
  <2> QED
    BY <1>1, <2>1 DEF SmoothRank, Active, BarrierInv, Progress, ProgressInv
<1>3. stage[a] \in InUse \/ ~Active(a)
  BY DEF Close, Free, Return, InUse, Active
<1>4. stage'[a] \in {"freeing", "closed"}
  <2>1. CASE Close(a) \/ Free(a)
    BY <1>1, <2>1 DEF Close, Free, ControlTypes
  <2>2. CASE Return(a)
    BY <1>1, <1>2, <2>2, GotoEffect DEF Return
  <2> QED
    BY <2>1, <2>2
<1>5. live'[a] \subseteq live[a]
  BY <1>1 DEF Close, Free, Return, OwnershipTypes
<1>6. UNCHANGED <<inbox, backlog>>
  BY DEF Close, Free, Return, links_vars
<1>7. Still(a)
  BY <1>6, StepOthers DEF Still, RankStep, Run
<1>8. ~Active(a)'
  BY <1>4 DEF Active, Gone
<1>9. Smoothly(a)
  BY <1>2, <1>3, <1>5, <1>6, <1>7, <1>8, SmoothLeaves
<1>10. SmoothRank(a)'
  BY <1>1, <1>2, <1>4 DEF SmoothRank
<1> QED
  BY <1>9, <1>10

\* A rank in the exchange or the barrier has its sockets; a neighbour that is
\* on its way out has read two messages of it.
LEMMA NeighbourLeft ==
    ASSUME TypeOK, OwnershipInv, BarrierInv, Smooth, NEW a \in Ranks,
           stage[a] \in Exchanging, NEW s \in Sockets, ~PeerOpen(a, s)
    PROVE  LET p == Neighbour(a, s) IN
           /\ peer[a][s] = p
           /\ ~Active(p) /\ Reads(p, Other(s)) = 2
           /\ Arrived(a, s) >= 2 /\ Arrived(p, Other(s)) <= Writes(a, s)
<1> DEFINE p == Neighbour(a, s)
<1>1. p \in Ranks /\ Other(s) \in Sockets /\ Neighbour(p, Other(s)) = a /\ Other(Other(s)) = s
  BY LinkFacts
<1>2. s \in live[a] /\ peer[a][s] = p /\ ~Attached(p, Other(s))
  BY SocketsThere DEF BarrierInv
<1>3. SmoothLink(a, s) /\ SmoothLink(p, Other(s)) /\ SmoothRank(p)
  BY <1>1 DEF Smooth
<1>4. ~Active(p) /\ Arrived(a, s) >= 2
  BY <1>2, <1>3 DEF SmoothLink, Attached
<1>5. Reads(p, Other(s)) = 2
  BY <1>3, <1>4 DEF SmoothRank, Reads
<1>6. Active(a)
  BY DEF Active, Exchanging, Gone
<1>7. Arrived(p, Other(s)) <= Writes(a, s)
  BY <1>1, <1>3, <1>6 DEF SmoothLink
<1> QED
  BY <1>2, <1>4, <1>5, <1>7

\* While a rank has not written both messages to a socket, its other end is there.
LEMMA PeerStays ==
    ASSUME TypeOK, OwnershipInv, BarrierInv, Smooth, NEW a \in Ranks,
           stage[a] \in Exchanging, NEW t \in Sockets, Writes(a, t) \in {0, 1}
    PROVE  PeerOpen(a, t)
<1> SUFFICES ASSUME ~PeerOpen(a, t) PROVE FALSE
  OBVIOUS
<1> DEFINE n == Arrived(Neighbour(a, t), Other(t))
           k == Len(inbox[Neighbour(a, t)][Other(t)])
<1>1. Neighbour(a, t) \in Ranks /\ Other(t) \in Sockets
  BY LinkFacts
<1>2. Reads(Neighbour(a, t), Other(t)) = 2 /\ n <= Writes(a, t)
  BY NeighbourLeft
<1>3. n = 2 + k
  BY <1>2 DEF Arrived
<1>4. k \in Nat
  BY <1>1, TypeParts DEF LinkTypes
<1> HIDE DEF n, k
<1> QED
  BY <1>2, <1>3, <1>4

\* A rank that still awaits a message of a socket can read it.
LEMMA NeverReadFails ==
    ASSUME TypeOK, OwnershipInv, BarrierInv, Smooth, NEW a \in Ranks,
           stage[a] \in Exchanging, NEW s \in Sockets, Reads(a, s) \in {0, 1}
    PROVE  ~ReadFails(a, s)
<1> SUFFICES ASSUME ~PeerOpen(a, s),
                    inbox[a][s] = <<>> \/ inbox[peer[a][s]][Other(s)] # <<>>
             PROVE  FALSE
  BY DEF ReadFails
<1> DEFINE p == Neighbour(a, s)
           k == Len(inbox[p][Other(s)])
           n == Arrived(p, Other(s))
           m == Arrived(a, s)
<1>1. p \in Ranks /\ Other(s) \in Sockets
  BY LinkFacts
<1>2. /\ peer[a][s] = p /\ Reads(p, Other(s)) = 2
      /\ m >= 2 /\ n <= Writes(a, s)
  BY NeighbourLeft
<1>3. Writes(a, s) \in {0, 1, 2}
  BY DEF Writes, WrittenAt, Exchanging
<1>4. inbox[p][Other(s)] \in Seq(Messages) /\ n = 2 + k
  BY <1>1, <1>2, TypeParts DEF LinkTypes, Arrived
<1>5. CASE inbox[a][s] = <<>>
  <2>1. m = Reads(a, s) + 0
    BY <1>5 DEF Arrived
  <2> HIDE DEF m
  <2> QED
    BY <1>2, <2>1
<1>6. CASE inbox[p][Other(s)] # <<>>
  <2>1. k \in Nat /\ k >= 1
    BY <1>4, <1>6
  <2> HIDE DEF n, k
  <2> QED
    BY <1>2, <1>3, <1>4, <2>1
<1> QED
  BY <1>2, <1>5, <1>6

\* The four writes of the exchange and of the barrier.
LEMMA WriteSmooth ==
    ASSUME TypeOK, OwnershipInv, BarrierInv, Smooth, NEW a \in Ranks,
           WriteRecord(a) \/ WriteReady(a)
    PROVE  Smoothly(a) /\ SmoothRank(a)'
<1>1. PICK t \in Sockets, m \in Messages, next \in Exchanging :
          /\ stage[a] \in Exchanging /\ Write(a, t, m, next)
          /\ WrittenAt(stage[a], t) \in {0, 1}
          /\ WrittenAt(next, t) = WrittenAt(stage[a], t) + 1
          /\ WrittenAt(next, Other(t)) = WrittenAt(stage[a], Other(t))
          /\ \A s \in Sockets : ReadAt(next, s) = ReadAt(stage[a], s)
  <2>1. /\ Other("next_socket") = "previous_socket" /\ Other("previous_socket") = "next_socket"
        /\ "next_socket" \in Sockets /\ "previous_socket" \in Sockets
        /\ Sockets = {"next_socket", "previous_socket"}
    BY DEF Other, Sockets
  <2>2. /\ ExchangeData(<<a, "qp_next">>) \in Messages /\ ExchangeData(<<a, "qp_prev">>) \in Messages
        /\ Ready \in Messages
    BY MessagesTypes DEF QueuePairs
  <2>3. CASE /\ stage[a] = "writeNext"
             /\ Write(a, "next_socket", ExchangeData(<<a, "qp_next">>), "writePrevious")
    <3>1. "writeNext" \in Exchanging /\ "writePrevious" \in Exchanging
      BY DEF Exchanging
    <3> QED
      BY <2>1, <2>2, <2>3, <3>1, StageTable DEF Counts
  <2>4. CASE /\ stage[a] = "writePrevious"
             /\ Write(a, "previous_socket", ExchangeData(<<a, "qp_prev">>), "readNext")
    <3>1. "writePrevious" \in Exchanging /\ "readNext" \in Exchanging
      BY DEF Exchanging
    <3> QED
      BY <2>1, <2>2, <2>4, <3>1, StageTable DEF Counts
  <2>5. CASE stage[a] = "readyNext" /\ Write(a, "next_socket", Ready, "readyPrevious")
    <3>1. "readyNext" \in Exchanging /\ "readyPrevious" \in Exchanging
      BY DEF Exchanging
    <3> QED
      BY <2>1, <2>2, <2>5, <3>1, StageTable DEF Counts
  <2>6. CASE stage[a] = "readyPrevious" /\ Write(a, "previous_socket", Ready, "awaitNext")
    <3>1. "readyPrevious" \in Exchanging /\ "awaitNext" \in Exchanging
      BY DEF Exchanging
    <3> QED
      BY <2>1, <2>2, <2>6, <3>1, StageTable DEF Counts
  <2> QED
    BY <2>3, <2>4, <2>5, <2>6 DEF WriteRecord, WriteReady
<1>2. ControlTypes /\ SmoothRank(a)
  BY TypeParts DEF Smooth
<1>3. OthersStay(a) /\ UNCHANGED backlog
  BY StepOthers DEF RankStep, Run, WriteRecord, WriteReady
<1>4. PeerOpen(a, t) /\ peer[a][t] = Neighbour(a, t)
  BY <1>1, PeerStays, SocketsThere DEF Writes, BarrierInv
<1>5. /\ inbox' = [inbox EXCEPT ![Neighbour(a, t)][Other(t)] = Append(@, m)]
      /\ Goto(a, next) /\ UNCHANGED live
  BY <1>1, <1>4 DEF Write
<1>6. Smoothly(a)
  BY <1>1, <1>3, <1>5, SmoothWrites
<1>7. stage'[a] = next /\ status' = status
  BY <1>2, <1>5, GotoEffect DEF Goto
<1>8. SmoothRank(a)'
  BY <1>1, <1>2, <1>7 DEF SmoothRank, Active, Exchanging, Gone
<1> QED
  BY <1>6, <1>8

\* The two reads of the exchange.
LEMMA ReadRecordSmooth ==
    ASSUME TypeOK, OwnershipInv, BarrierInv, Smooth, NEW a \in Ranks, ReadRecord(a)
    PROVE  Smoothly(a) /\ SmoothRank(a)'
<1>1. OthersStay(a) /\ UNCHANGED <<backlog, live>>
  BY StepOthers DEF RankStep, Run, ReadRecord
<1>2. stage[a] \in Exchanging /\ status[a] # PG_SUCCESS
  BY DEF ReadRecord, Exchanging, BarrierInv, Progress, ProgressInv, InUse, Gone, Sockets
<1>3. PICK s \in Sockets :
          /\ stage[a] = IF s = "next_socket" THEN "readNext" ELSE "readPrevious"
          /\ \/ /\ TakeMessage(a, s)
                /\ Goto(a, IF s = "next_socket" THEN "readPrevious" ELSE "transition")
             \/ ReadFails(a, s)
  BY DEF ReadRecord
<1>4. Reads(a, s) = 0
  BY <1>2, <1>3, StageTable DEF Counts, Reads, Sockets
<1>5. ~ReadFails(a, s)
  BY <1>2, <1>4, NeverReadFails
<1> DEFINE next == IF s = "next_socket" THEN "readPrevious" ELSE "transition"
<1>6. /\ next \in Exchanging \cup Finishing
      /\ ReadAt(next, s) = ReadAt(stage[a], s) + 1
      /\ ReadAt(next, Other(s)) = ReadAt(stage[a], Other(s))
      /\ \A t \in Sockets : WrittenAt(next, t) = WrittenAt(stage[a], t)
  BY <1>3, StageTable DEF Counts, Exchanging, Sockets, Other
<1>7. TakeMessage(a, s) /\ Goto(a, next)
  BY <1>3, <1>5
<1> HIDE DEF next
<1>8. Smoothly(a)
  BY <1>1, <1>2, <1>6, <1>7, SmoothReads
<1>9. stage'[a] = next /\ status' = status /\ SmoothRank(a)
  BY <1>7, TypeParts, GotoEffect DEF Goto, Smooth
<1>10. SmoothRank(a)'
  BY <1>6, <1>9 DEF SmoothRank, Active, Exchanging, Finishing, Gone
<1> QED
  BY <1>8, <1>10

\* The two reads of the barrier: what is read is the ready byte.
LEMMA ReadReadySmooth ==
    ASSUME TypeOK, OwnershipInv, BarrierInv, Smooth, NEW a \in Ranks, ReadReady(a)
    PROVE  Smoothly(a) /\ SmoothRank(a)'
<1>1. OthersStay(a) /\ UNCHANGED <<backlog, live>>
  BY StepOthers DEF RankStep, Run, ReadReady
<1>2. stage[a] \in Exchanging /\ status[a] # PG_SUCCESS
  BY DEF ReadReady, Exchanging, BarrierInv, Progress, ProgressInv, InUse, Gone, Sockets
<1>3. PICK s \in Sockets :
          /\ stage[a] = IF s = "next_socket" THEN "awaitNext" ELSE "awaitPrevious"
          /\ \/ /\ TakeMessage(a, s)
                /\ Head(inbox[a][s]) # Ready
             \/ /\ TakeMessage(a, s)
                /\ Goto(a, IF s = "next_socket" THEN "awaitPrevious" ELSE "configure")
             \/ ReadFails(a, s)
  BY DEF ReadReady
<1>4. Reads(a, s) = 1
  BY <1>2, <1>3, StageTable DEF Counts, Reads, Sockets
<1>5. ~ReadFails(a, s)
  BY <1>2, <1>4, NeverReadFails
<1>6. TakeMessage(a, s) => Head(inbox[a][s]) = Ready
  <2>1. SUFFICES ASSUME inbox[a][s] # <<>> PROVE Head(inbox[a][s]) = Ready
    BY DEF TakeMessage
  <2>2. inbox[a][s] \in Seq(Messages)
    BY TypeParts DEF LinkTypes
  <2>3. 1 \in 1..Len(inbox[a][s]) /\ Head(inbox[a][s]) = inbox[a][s][1]
    BY <2>1, <2>2
  <2>4. StreamInv(a, s) /\ Known(a)
    BY <1>2 DEF BarrierInv, Streams, Known, Active, Exchanging, Gone
  <2>5. inbox[a][s][1] = Stream(Neighbour(a, s), Other(s))[Reads(a, s) + 1]
    BY <2>3, <2>4 DEF StreamInv
  <2>6. inbox[a][s][1] = Stream(Neighbour(a, s), Other(s))[2]
    BY <1>4, <2>5
  <2> QED
    BY <2>3, <2>6 DEF Stream
<1> DEFINE next == IF s = "next_socket" THEN "awaitPrevious" ELSE "configure"
<1>7. /\ next \in Exchanging \cup Finishing
      /\ ReadAt(next, s) = ReadAt(stage[a], s) + 1
      /\ ReadAt(next, Other(s)) = ReadAt(stage[a], Other(s))
      /\ \A t \in Sockets : WrittenAt(next, t) = WrittenAt(stage[a], t)
  BY <1>3, StageTable DEF Counts, Exchanging, Finishing, Sockets, Other
<1>8. TakeMessage(a, s) /\ Goto(a, next)
  BY <1>3, <1>5, <1>6
<1> HIDE DEF next
<1>9. Smoothly(a)
  BY <1>1, <1>2, <1>7, <1>8, SmoothReads
<1>10. stage'[a] = next /\ status' = status /\ SmoothRank(a)
  BY <1>8, TypeParts, GotoEffect DEF Goto, Smooth
<1>11. SmoothRank(a)'
  BY <1>7, <1>10 DEF SmoothRank, Active, Exchanging, Finishing, Gone
<1> QED
  BY <1>9, <1>11

\* The first receive announces itself, is lost, or is the end of the process.
LEMMA AnnounceSmooth ==
    ASSUME TypeOK, OwnershipInv, BarrierInv, Smooth, NEW a \in Ranks, Announce(a)
    PROVE  Smoothly(a) /\ SmoothRank(a)'
<1>1. OthersStay(a) /\ UNCHANGED backlog /\ ControlTypes /\ OwnershipTypes /\ SmoothRank(a)
  BY StepOthers, TypeParts DEF RankStep, Announce, Smooth
<1>2. stage[a] = "connected" /\ status[a] = PG_SUCCESS
  BY DEF Announce, BarrierInv, Progress, ProgressInv, InUse
<1>3. "previous_socket" \in Sockets /\ Other("previous_socket") = "next_socket"
  BY DEF Sockets, Other
<1>4. peer[a]["previous_socket"] = Neighbour(a, "previous_socket")
  BY <1>2, <1>3, SocketsThere DEF BarrierInv, InUse
<1>5. /\ WrittenAt("running", "previous_socket") = WrittenAt("connected", "previous_socket") + 1
      /\ WrittenAt("running", "next_socket") = WrittenAt("connected", "next_socket")
      /\ \A s \in Sockets : ReadAt("running", s) = ReadAt("connected", s)
  BY StageTable DEF Counts, Sockets
<1>6. CASE Dies(a) /\ UNCHANGED inbox
  <2>1. stage'[a] = "dead" /\ live'[a] = {} /\ UNCHANGED status /\ Still(a)
    BY <1>1, <1>6 DEF Dies, ControlTypes, OwnershipTypes, Still
  <2>2. ~Active(a)' /\ stage[a] \in InUse
    BY <1>2, <2>1 DEF Active, Gone, InUse
  <2>3. Smoothly(a)
    BY <1>2, <1>6, <2>1, <2>2, SmoothLeaves
  <2>4. SmoothRank(a)'
    BY <1>1, <1>2, <2>1 DEF SmoothRank
  <2> QED
    BY <2>3, <2>4
<1>7. CASE /\ \/ inbox' = [inbox EXCEPT ![Neighbour(a, "previous_socket")]["next_socket"] =
                                            Append(@, Descriptor)]
              \/ UNCHANGED inbox
           /\ Goto(a, "running") /\ UNCHANGED live
  <2>1. stage[a] \in Exchanging \cup InUse /\ "running" \in Exchanging \cup InUse
    BY <1>2 DEF InUse
  <2>2. Smoothly(a)
    BY <1>1, <1>2, <1>3, <1>5, <1>7, <2>1, SmoothWrites
  <2>3. stage'[a] = "running" /\ status' = status
    BY <1>1, <1>7, GotoEffect DEF Goto
  <2>4. SmoothRank(a)'
    BY <1>1, <2>3 DEF SmoothRank, Active, Gone
  <2> QED
    BY <2>2, <2>4
<1> QED
  BY <1>4, <1>6, <1>7 DEF Announce

\* A rank connects to the next one, which will accept it.
LEMMA ConnectSmooth ==
    ASSUME TypeOK, OwnershipInv, BarrierInv, Smooth, NEW a \in Ranks, Connect(a)
    PROVE  Smooth'
<1> DEFINE d == NextRank(a)
<1>1. ControlTypes /\ OwnershipTypes /\ backlog \in [Ranks -> Ranks \cup {NoRank}]
  BY TypeParts DEF LinkTypes
<1>2. /\ stage[a] = "connect" /\ stage[d] = "accept" /\ d \in Ranks /\ d # a
      /\ backlog[d] = NoRank /\ backlog' = [backlog EXCEPT ![d] = a]
      /\ UNCHANGED inbox
      /\ Own(a, {"next_socket"})
      /\ LeaveSocketCall(a, ConnectsFirst(a), (live[a] \cap Sockets) \cup {"next_socket"})
  <2>1. PICK e \in Ranks :
            /\ stage[a] = "connect" /\ stage[e] = "accept"
            /\ base_port + a = base_port + PrevRank(e)
            /\ backlog[e] = NoRank /\ backlog' = [backlog EXCEPT ![e] = a]
            /\ UNCHANGED inbox
            /\ Own(a, {"next_socket"})
            /\ LeaveSocketCall(a, ConnectsFirst(a), (live[a] \cap Sockets) \cup {"next_socket"})
    BY DEF Connect
  <2>2. e = d
    BY <2>1, PortOfNext
  <2>3. d # a
    BY RingFacts
  <2> QED
    BY <2>1, <2>2, <2>3
<1>3. OthersStay(a) /\ SmoothRank(a)
  BY StepOthers DEF RankStep, Run, Smooth
<1>4. live'[a] = live[a] \cup {"next_socket"}
  BY <1>1, <1>2, OwnEffect
<1>5. ConnectsFirst(a) \/ (live[a] \cap Sockets) \cup {"next_socket"} = Sockets
  BY <1>2, <1>3 DEF SmoothRank, Sockets
<1>6. /\ status' = status
      /\ stage'[a] = IF ConnectsFirst(a) THEN "listen" ELSE "writeNext"
  BY <1>2, <1>5, SmoothLeave
<1>7. stage[a] \in EarlyStages /\ status[a] # PG_SUCCESS
  BY <1>2, EarlyStatus DEF EarlyStages, Meeting, InUse, Gone, BarrierInv, Progress
<1>8. Active(a) /\ \A s \in Sockets : Reads(a, s) = 0 /\ Writes(a, s) = 0
  BY <1>7, EarlyCounts
<1>9. Active(a)' /\ \A s \in Sockets : Reads(a, s)' = 0 /\ Writes(a, s)' = 0
  BY <1>6, <1>7, EarlyCountsNext DEF Sockets
<1>10. \A r \in Ranks : /\ Active(r)' = Active(r)
                        /\ \A s \in Sockets : /\ Reads(r, s)' = Reads(r, s)
                                              /\ Writes(r, s)' = Writes(r, s)
  BY <1>3, <1>8, <1>9 DEF OthersStay, Active, Reads, Writes
<1>11. \A r \in Ranks, s \in Sockets : Arrived(r, s)' = Arrived(r, s)
  BY <1>2, <1>10 DEF Arrived
<1>12. backlog'[d] = a /\ a # NoRank /\ \A r \in Ranks \ {d} : backlog'[r] = backlog[r]
  BY <1>1, <1>2, NoRankIsNone
<1>13. /\ "next_socket" \in Sockets /\ "previous_socket" \in Sockets
       /\ Attached(a, "next_socket")' /\ Attached(d, "previous_socket")'
  BY <1>2, <1>3, <1>4, <1>12 DEF Attached, OthersStay, Sockets
<1>14. ASSUME NEW r \in Ranks, NEW s \in Sockets,
              ~(r = a /\ s = "next_socket"), ~(r = d /\ s = "previous_socket")
       PROVE  Attached(r, s)' <=> Attached(r, s)
  <2>1. CASE r = a
    BY <1>2, <1>4, <1>6, <1>14, <2>1 DEF Attached, Sockets
  <2>2. CASE r # a
    BY <1>3, <1>12, <1>14, <2>2 DEF Attached, OthersStay, Sockets
  <2> QED
    BY <2>1, <2>2
<1>15. ASSUME NEW r \in Ranks PROVE SmoothRank(r)'
  <2>1. CASE r = a
    BY <1>3, <1>4, <1>6, <1>9, <2>1 DEF SmoothRank, ConnectsFirst
  <2>2. CASE r # a
    BY <1>3, <2>2 DEF SmoothRank, OthersStay, Smooth, Active
  <2> QED
    BY <2>1, <2>2
<1>16. ASSUME NEW r \in Ranks, NEW s \in Sockets PROVE SmoothLink(r, s)'
  <2>1. PICK p \in Ranks, o \in Sockets :
            p = Neighbour(r, s) /\ o = Other(s) /\ Neighbour(p, o) = r /\ Other(o) = s
    BY LinkFacts
  <2>2. SmoothLink(r, s) /\ Active(p)' = Active(p) /\ Writes(p, o)' = Writes(p, o)
    BY <1>10 DEF Smooth
  <2>3. Arrived(r, s)' = Arrived(r, s)
    BY <1>11
  <2>4. Active(d)
    BY <1>2 DEF Active, Gone
  <2>5. CASE r = a /\ s = "next_socket"
    <3>1. p = d /\ o = "previous_socket"
      BY <2>1, <2>5 DEF Neighbour, Other
    <3> QED
      BY <1>13, <2>1, <2>2, <2>3, <2>4, <3>1 DEF SmoothLink
  <2>6. CASE r = d /\ s = "previous_socket"
    <3>1. p = a /\ o = "next_socket"
      BY <2>1, <2>6, RingFacts DEF Neighbour, Other
    <3> QED
      BY <1>8, <1>13, <2>1, <2>2, <2>3, <3>1 DEF SmoothLink
  <2>7. CASE ~(r = a /\ s = "next_socket") /\ ~(r = d /\ s = "previous_socket")
    <3>1. ~(p = a /\ o = "next_socket") /\ ~(p = d /\ o = "previous_socket")
      BY <2>1, <2>7, RingFacts DEF Neighbour, Other
    <3>2. /\ Attached(r, s)' <=> Attached(r, s)
          /\ Attached(p, o)' <=> Attached(p, o)
      BY <1>14, <2>7, <3>1
    <3> QED
      BY <2>1, <2>2, <2>3, <3>2 DEF SmoothLink
  <2> QED
    BY <2>5, <2>6, <2>7
<1> QED
  BY <1>15, <1>16 DEF Smooth

LEMMA InitSmooth == Init => SmoothInv
<1> SUFFICES ASSUME Init PROVE Smooth
  BY DEF SmoothInv
<1>1. /\ BarrierInv
      /\ \A r \in Ranks : /\ stage[r] = "arguments" /\ status[r] = Pending /\ live[r] = {}
                          /\ \A s \in Sockets : inbox[r][s] = <<>>
  BY InitBarrier DEF Init
<1>2. \A r \in Ranks : Active(r) /\ \A s \in Sockets : Reads(r, s) = 0 /\ Writes(r, s) = 0
  BY <1>1, StatusNames, EarlyCounts DEF EarlyStages, Before
<1>3. ASSUME NEW r \in Ranks PROVE SmoothRank(r)
  BY <1>1, <1>2 DEF SmoothRank, Errors, Pending, PG_ERR_INVALID_ARGUMENT, PG_ERR_TRANSPORT,
                    PG_ERR_NO_MEMORY
<1>4. ASSUME NEW r \in Ranks, NEW s \in Sockets PROVE SmoothLink(r, s)
  <2>1. ~Attached(r, s)
    BY <1>1 DEF Attached
  <2>2. Neighbour(r, s) \in Ranks /\ Other(s) \in Sockets
    BY LinkFacts
  <2>3. Arrived(r, s) = 0
    BY <1>1, <1>2 DEF Arrived
  <2>4. Writes(Neighbour(r, s), Other(s)) = 0
    BY <1>2, <2>2
  <2> QED
    BY <2>1, <2>3, <2>4 DEF SmoothLink
<1> QED
  BY <1>3, <1>4 DEF Smooth

LEMMA NextSmooth ==
    TypeOK /\ OwnershipInv /\ BarrierInv /\ SmoothInv /\ [Next]_vars => SmoothInv'
<1> SUFFICES ASSUME TypeOK, OwnershipInv, BarrierInv, SmoothInv, [Next]_vars, faults' = {}
             PROVE  Smooth'
  BY DEF SmoothInv
<1>1. CASE UNCHANGED vars
  <2>1. Smooth
    BY <1>1 DEF vars, SmoothInv
  <2> QED
    BY <1>1, <2>1 DEF vars, Smooth, SmoothRank, SmoothLink, Arrived, Active, Reads, Writes,
                      Attached
<1>2. ASSUME NEW a \in Ranks, RankStep(a) PROVE Smooth'
  <2>1. ~GiveUp(a) /\ ~Crash(a)
    BY NoFault DEF GiveUp, Crash
  <2>2. Smooth
    <3>1. faults' = faults \/ faults' = faults \cup {a}
      BY <1>2 DEF RankStep, Run, CheckArguments, GetDeviceList, OpenDevice, AllocPd, QueryPort,
           CreateTransport, CreateQps, Connect, GiveUp, Listen, Accept, WriteRecord,
           ReadRecord, TransitionToRts, WriteReady, ReadReady, Configure, CreateHandle,
           Free, Return, Announce, Close, Crash, Fault
    <3> QED
      BY <3>1 DEF SmoothInv
  <2>3. TypeOK' /\ Streams
    BY NextTypes DEF BarrierInv
  <2>4. CASE Connect(a)
    BY <2>2, <2>4, ConnectSmooth
  <2>5. CASE ~Connect(a)
    <3>1. CASE \/ CheckArguments(a) \/ GetDeviceList(a) \/ OpenDevice(a) \/ AllocPd(a) \/ QueryPort(a)
               \/ CreateTransport(a) \/ CreateQps(a)
      BY <2>2, <2>3, <3>1, DeviceSmooth, SmoothKeeps
    <3>2. CASE Listen(a) \/ Accept(a)
      BY <2>2, <2>3, <3>2, ListenSmooth, AcceptSmooth, SmoothKeeps
    <3>3. CASE WriteRecord(a) \/ WriteReady(a) \/ ReadRecord(a) \/ ReadReady(a)
      BY <2>2, <2>3, <3>3, WriteSmooth, ReadRecordSmooth, ReadReadySmooth, SmoothKeeps
    <3>4. CASE TransitionToRts(a) \/ Configure(a) \/ CreateHandle(a)
      BY <2>2, <2>3, <3>4, HandleSmooth, SmoothKeeps
    <3>5. CASE Announce(a) \/ Close(a) \/ Free(a) \/ Return(a)
      BY <2>2, <2>3, <3>5, AnnounceSmooth, CloseSmooth, SmoothKeeps
    <3> QED
      BY <1>2, <2>1, <2>5, <3>1, <3>2, <3>3, <3>4, <3>5 DEF RankStep, Run
  <2> QED
    BY <2>4, <2>5
<1> QED
  BY <1>1, <1>2 DEF Next, RankStep

LEMMA SmoothReason == SmoothInv => FailsForAReason
<1> SUFFICES ASSUME SmoothInv, faults = {}, NEW r \in Ranks
             PROVE  status[r] \notin Errors /\ ~(stage[r] = "dead" /\ status[r] = Pending)
  BY DEF FailsForAReason
<1>1. SmoothRank(r)
  BY DEF SmoothInv, Smooth
<1>2. stage[r] = "dead" => ~Active(r)
  BY DEF Active, Gone
<1> QED
  BY <1>1, <1>2, StatusNames DEF SmoothRank

\* A call of connect_process_group fails, or the write of it kills the process,
\* only if somewhere a call failed or gave up by itself or a process died: a
\* neighbour that is through the barrier and closes its group at once has
\* written all that is still read, and left nothing of it unread.
THEOREM FailuresHaveAReason == Spec => []FailsForAReason
BY InitTypes, NextTypes, InitOwnership, NextOwnership, InitBarrier, NextBarrier,
   InitSmooth, NextSmooth, SmoothReason, PTL DEF Spec
=============================================================================
