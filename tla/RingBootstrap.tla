---------------------------- MODULE RingBootstrap ----------------------------
(* How a ring of processes becomes a process group: connect_process_group at *)
(* every rank, up to the handle it returns, and pg_close, which gives back   *)
(* what the handle owns.                                                     *)
(*                                                                           *)
(* A stage is the call a rank makes next.  Ranks meet through the TCP        *)
(* sockets only: a rank's next_socket is connected to the previous_socket of *)
(* the next rank, and both are read in the order they were written.          *)
EXTENDS Integers, Sequences

CONSTANTS
    WorldSize,
    Host,          \* Host[r], where HOST_LIST says rank r runs
    base_port,
    FaultyRanks    \* ranks whose calls may fail and whose process may die

Ranks == 0..(WorldSize - 1)
NextRank(r) == (r + 1) % WorldSize
PrevRank(r) == (r - 1 + WorldSize) % WorldSize

ASSUME BootstrapAssumption ==
    /\ WorldSize \in Nat /\ WorldSize >= 2
    /\ base_port \in Nat
    /\ FaultyRanks \subseteq Ranks

VARIABLES
    stage,      \* the call rank r is at
    status,     \* what connect_process_group returned, or will after cleaning up
    live,       \* what rank r has obtained and not given back
    members,    \* the part of it the VerbsTransport object owns
    freeing,    \* what rank r is about to give back, in order
    backlog,    \* the rank whose connection waits for rank r's accept
    peer,       \* the rank at the other end of a socket
    inbox,      \* what can be read from a socket
    remote,     \* remote_next and remote_previous, by the socket they came from
    dest,       \* the queue pair each of rank r's was connected to, for ever
    faults      \* history: ranks at which something went wrong by itself

vars == <<stage, status, live, members, freeing, backlog, peer, inbox, remote,
          dest, faults>>

Sockets   == {"next_socket", "previous_socket"}
QueuePairs == {"qp_next", "qp_prev"}
Lists     == {"device_list", "empty_list"}   \* the second has no device in it
Resources == Sockets \cup QueuePairs \cup Lists \cup
             {"context", "pd", "cq", "handle", "collectives"}

Stages == {"arguments", "device", "open", "pd", "port", "transport", "qps", "connect",
           "listen", "accept", "writeNext", "writePrevious", "readNext",
           "readPrevious", "transition", "readyNext", "readyPrevious",
           "awaitNext", "awaitPrevious", "configure", "create", "connected",
           "running", "freeing", "returned", "closed", "dead"}

PG_SUCCESS              == "PG_SUCCESS"
PG_ERR_INVALID_ARGUMENT == "PG_ERR_INVALID_ARGUMENT"
PG_ERR_TRANSPORT        == "PG_ERR_TRANSPORT"
PG_ERR_NO_MEMORY        == "PG_ERR_NO_MEMORY"
Pending                 == "pending"

Errors == {PG_ERR_INVALID_ARGUMENT, PG_ERR_TRANSPORT, PG_ERR_NO_MEMORY}

NoRank == -1
NoQp   == <<>>
Qps    == Ranks \X QueuePairs

\* Mistake: the record names a rank counted from one.
ExchangeData_from_one(qp) == [kind |-> "record", qp |-> <<qp[1] + 1, qp[2]>>]

\* An ExchangeData record, the ready byte, or the descriptor of a receive.
ExchangeData(qp) == [kind |-> "record", qp |-> qp]
Ready            == [kind |-> "ready", qp |-> NoQp]
Descriptor       == [kind |-> "descriptor", qp |-> NoQp]
Messages == [kind : {"record", "ready", "descriptor"}, qp : Qps \cup {NoQp}]

\* The socket at the other end.
Other(socket) ==
    IF socket = "next_socket" THEN "previous_socket" ELSE "next_socket"

\* The queue pair whose number a rank writes to a socket.
QpOf(socket) == IF socket = "next_socket" THEN "qp_next" ELSE "qp_prev"

TypeOK ==
    /\ stage   \in [Ranks -> Stages]
    /\ status  \in [Ranks -> Errors \cup {PG_SUCCESS, Pending}]
    /\ live    \in [Ranks -> SUBSET Resources]
    /\ members \in [Ranks -> SUBSET Resources]
    /\ freeing \in [Ranks -> Seq(Resources)]
    /\ backlog \in [Ranks -> Ranks \cup {NoRank}]
    /\ peer    \in [Ranks -> [Sockets -> Ranks \cup {NoRank}]]
    /\ inbox   \in [Ranks -> [Sockets -> Seq(Messages)]]
    /\ remote  \in [Ranks -> [Sockets -> Qps \cup {NoQp}]]
    /\ dest    \in [Ranks -> [QueuePairs -> Qps \cup {NoQp}]]
    /\ faults  \subseteq Ranks

Init ==
    /\ stage   = [r \in Ranks |-> "arguments"]
    /\ status  = [r \in Ranks |-> Pending]
    /\ live    = [r \in Ranks |-> {}]
    /\ members = [r \in Ranks |-> {}]
    /\ freeing = [r \in Ranks |-> <<>>]
    /\ backlog = [r \in Ranks |-> NoRank]
    /\ peer    = [r \in Ranks |-> [s \in Sockets |-> NoRank]]
    /\ inbox   = [r \in Ranks |-> [s \in Sockets |-> <<>>]]
    /\ remote  = [r \in Ranks |-> [s \in Sockets |-> NoQp]]
    /\ dest    = [r \in Ranks |-> [q \in QueuePairs |-> NoQp]]
    /\ faults  = {}

-----------------------------------------------------------------------------
(* Going on, failing, and giving back.                                       *)

links_vars == <<backlog, peer, inbox, remote, dest>>

Goto(r, next) ==
    /\ stage' = [stage EXCEPT ![r] = next]
    /\ UNCHANGED <<status, freeing>>

Own(r, resources) == live' = [live EXCEPT ![r] = @ \cup resources]

One(resource, set) == IF resource \in set THEN <<resource>> ELSE <<>>

\* Mistake: the completion queue goes before the queue pairs that use it.
Destructor_cq_first(set) ==
    One("next_socket", set) \o One("previous_socket", set) \o One("cq", set) \o
    One("qp_next", set) \o One("qp_prev", set) \o One("pd", set) \o One("context", set)

\* ~VerbsTransport gives back every member that is set, in this order.
Destructor(set) ==
    One("next_socket", set) \o One("previous_socket", set) \o
    One("qp_next", set) \o One("qp_prev", set) \o
    One("cq", set) \o One("pd", set) \o One("context", set)

CloseSockets(set) == One("next_socket", set) \o One("previous_socket", set)

\* connect_process_group gives back what it has and will return an error.
Fail(r, error, cleanup) ==
    /\ stage'   = [stage EXCEPT ![r] = "freeing"]
    /\ status'  = [status EXCEPT ![r] = error]
    /\ freeing' = [freeing EXCEPT ![r] = cleanup]

\* A call of a faulty rank fails by itself.
Fault(r) == r \in FaultyRanks /\ faults' = faults \cup {r}

Free(r) ==
    /\ stage[r] = "freeing"
    /\ freeing[r] # <<>>
    /\ freeing' = [freeing EXCEPT ![r] = Tail(@)]
    /\ live'    = [live EXCEPT ![r] = @ \ {Head(freeing[r])}]
    /\ members' = [members EXCEPT ![r] = @ \ {Head(freeing[r])}]
    /\ UNCHANGED <<stage, status, links_vars, faults>>

Return(r) ==
    /\ stage[r] = "freeing"
    /\ freeing[r] = <<>>
    /\ Goto(r, IF status[r] = PG_SUCCESS THEN "closed" ELSE "returned")
    /\ UNCHANGED <<live, members, links_vars, faults>>

\* The process is gone; the kernel closes its sockets and its device.
Dies(r) ==
    /\ stage'   = [stage EXCEPT ![r] = "dead"]
    /\ freeing' = [freeing EXCEPT ![r] = <<>>]
    /\ live'    = [live EXCEPT ![r] = {}]
    /\ members' = [members EXCEPT ![r] = {}]
    /\ UNCHANGED status

Crash(r) ==
    /\ stage[r] \notin {"returned", "closed", "dead"}
    /\ Fault(r)
    /\ Dies(r)
    /\ UNCHANGED links_vars

-----------------------------------------------------------------------------
(* The device, the transport and its queue pairs.                            *)

\* RANK, WORLD_SIZE and HOST_LIST are checked.
CheckArguments(r) ==
    /\ stage[r] = "arguments"
    /\ \/ Goto(r, "device") /\ UNCHANGED faults
       \/ Fault(r) /\ Fail(r, PG_ERR_INVALID_ARGUMENT, <<>>)
    /\ UNCHANGED <<live, members, links_vars>>

\* There is no list, or there is one with no device in it, which is kept.
GetDeviceList(r) ==
    /\ stage[r] = "device"
    /\ \/ Goto(r, "open") /\ Own(r, {"device_list"}) /\ UNCHANGED faults
       \/ \E list \in {{}, {"empty_list"}} :
             Fault(r) /\ Fail(r, PG_ERR_TRANSPORT, <<>>) /\ Own(r, list)
    /\ UNCHANGED <<members, links_vars>>

\* The list is given back before it is seen whether the device was opened.
OpenDevice(r) ==
    /\ stage[r] = "open"
    /\ \/ /\ Goto(r, "pd")
          /\ live' = [live EXCEPT ![r] = (@ \ {"device_list"}) \cup {"context"}]
          /\ UNCHANGED faults
       \/ Fault(r) /\ Fail(r, PG_ERR_TRANSPORT, <<"device_list">>) /\ UNCHANGED live
    /\ UNCHANGED <<members, links_vars>>

AllocPd(r) ==
    /\ stage[r] = "pd"
    /\ \/ Goto(r, "port") /\ Own(r, {"pd"}) /\ UNCHANGED faults
       \/ Fault(r) /\ Fail(r, PG_ERR_TRANSPORT, <<"context">>) /\ UNCHANGED live
    /\ UNCHANGED <<members, links_vars>>

QueryPort(r) ==
    /\ stage[r] = "port"
    /\ \/ Goto(r, "transport") /\ UNCHANGED faults
       \/ Fault(r) /\ Fail(r, PG_ERR_TRANSPORT, <<"pd", "context">>)
    /\ UNCHANGED <<live, members, links_vars>>

\* The constructor creates the completion queue and takes over context and pd;
\* when it throws it owns nothing.
CreateTransport(r) ==
    /\ stage[r] = "transport"
    /\ \/ /\ Goto(r, "qps")
          /\ Own(r, {"cq"})
          /\ members' = [members EXCEPT ![r] = {"context", "pd", "cq"}]
          /\ UNCHANGED faults
       \/ /\ Fault(r)
          /\ Fail(r, PG_ERR_TRANSPORT, <<"pd", "context">>)
          /\ UNCHANGED <<live, members>>
    /\ UNCHANGED links_vars

\* Mistake: every rank connects before it accepts.
ConnectsFirst_all(r) == r \in Ranks

\* Even ranks connect before they accept, odd ranks accept before they connect.
ConnectsFirst(r) == r % 2 = 0

\* Mistake: the transport is told of the queue pairs only when it is connected.
CreateQps_not_handed_over(r) ==
    /\ stage[r] = "qps"
    /\ \/ /\ Goto(r, IF ConnectsFirst(r) THEN "connect" ELSE "listen")
          /\ Own(r, QueuePairs)
          /\ UNCHANGED <<members, faults>>
       \/ /\ Fault(r)
          /\ Fail(r, PG_ERR_TRANSPORT, Destructor(members[r]))
          /\ UNCHANGED <<live, members>>
    /\ UNCHANGED links_vars

\* Both are created, or the one that was is destroyed before the transport;
\* then set_ring_qps makes the transport their owner.
CreateQps(r) ==
    /\ stage[r] = "qps"
    /\ \/ /\ Goto(r, IF ConnectsFirst(r) THEN "connect" ELSE "listen")
          /\ Own(r, QueuePairs)
          /\ members' = [members EXCEPT ![r] = @ \cup QueuePairs]
          /\ UNCHANGED faults
       \/ \E created \in {{}, {"qp_next"}, {"qp_prev"}} :
             /\ Fault(r)
             /\ Own(r, created)
             /\ Fail(r, PG_ERR_TRANSPORT,
                     One("qp_next", created) \o One("qp_prev", created) \o
                     Destructor(members[r]))
             /\ UNCHANGED members
    /\ UNCHANGED links_vars

-----------------------------------------------------------------------------
(* The TCP ring.                                                             *)

\* Rank r, holding these of its sockets, leaves one of its two calls for them.
LeaveSocketCall(r, first, sockets) ==
    IF first THEN Goto(r, IF ConnectsFirst(r) THEN "listen" ELSE "connect")
    ELSE IF sockets = Sockets THEN Goto(r, "writeNext")
    ELSE Fail(r, PG_ERR_TRANSPORT, CloseSockets(sockets) \o Destructor(members[r]))

\* connect_to_host reaches the rank that listens on the port on that host.
Connect(r) ==
    \E d \in Ranks :
        /\ stage[r] = "connect"
        /\ stage[d] = "accept" /\ backlog[d] = NoRank
        /\ Host[d] = Host[NextRank(r)]
        /\ base_port + r = base_port + PrevRank(d)
        /\ backlog' = [backlog EXCEPT ![d] = r]
        /\ peer' = [peer EXCEPT ![r]["next_socket"] = d]
        /\ Own(r, {"next_socket"})
        /\ LeaveSocketCall(r, ConnectsFirst(r), (live[r] \cap Sockets) \cup {"next_socket"})
        /\ UNCHANGED <<members, inbox, remote, dest, faults>>

\* After 100 attempts nobody listens yet (or the host is unknown): -1, which is
\* looked at only when both calls are through.
GiveUp(r) ==
    /\ stage[r] = "connect"
    /\ faults' = faults \cup {r}
    /\ LeaveSocketCall(r, ConnectsFirst(r), live[r] \cap Sockets)
    /\ UNCHANGED <<live, members, links_vars>>

\* socket, bind and listen.
Listen(r) ==
    /\ stage[r] = "listen"
    /\ \/ Goto(r, "accept") /\ UNCHANGED faults
       \/ Fault(r) /\ LeaveSocketCall(r, ~ConnectsFirst(r), live[r] \cap Sockets)
    /\ UNCHANGED <<live, members, links_vars>>

\* accept blocks until a rank has connected; the listening socket is closed.
Accept(r) ==
    /\ stage[r] = "accept"
    /\ \/ /\ backlog[r] # NoRank
          /\ backlog' = [backlog EXCEPT ![r] = NoRank]
          /\ peer' = [peer EXCEPT ![r]["previous_socket"] = backlog[r]]
          /\ Own(r, {"previous_socket"})
          /\ LeaveSocketCall(r, ~ConnectsFirst(r), (live[r] \cap Sockets) \cup {"previous_socket"})
          /\ UNCHANGED faults
       \/ /\ Fault(r)
          /\ LeaveSocketCall(r, ~ConnectsFirst(r), live[r] \cap Sockets)
          /\ backlog' = [backlog EXCEPT ![r] = NoRank]
          /\ UNCHANGED <<live, peer>>
    /\ UNCHANGED <<members, inbox, remote, dest>>

\* The other end is open, or in the backlog of a rank that will accept it.
PeerOpen(r, socket) ==
    LET p == peer[r][socket] IN
    \/ Other(socket) \in live[p]
    \/ socket = "next_socket" /\ stage[p] = "accept" /\ backlog[p] = r

\* write_all: a write to a socket the peer has closed is lost, refused, or
\* raises SIGPIPE, which nothing handles.
Write(r, socket, message, next) ==
    \/ /\ PeerOpen(r, socket)
       /\ inbox' = [inbox EXCEPT ![peer[r][socket]][Other(socket)] = Append(@, message)]
       /\ Goto(r, next)
       /\ UNCHANGED <<live, members>>
    \/ /\ ~PeerOpen(r, socket)
       /\ \/ Goto(r, next) /\ UNCHANGED <<live, members>>
          \/ /\ Fail(r, PG_ERR_TRANSPORT, CloseSockets(Sockets) \o Destructor(members[r]))
             /\ UNCHANGED <<live, members>>
          \/ Dies(r)
       /\ UNCHANGED inbox

\* Mistake: read returning 0 is taken for a call to be repeated.
ReadFails_never(r, socket) ==
    /\ r \notin Ranks
    /\ UNCHANGED <<stage, status, freeing, inbox, remote>>

\* Mistake: a peer that has closed is not read from, whatever it wrote before.
ReadFails_on_close(r, socket) ==
    /\ ~PeerOpen(r, socket)
    /\ Fail(r, PG_ERR_TRANSPORT, CloseSockets(Sockets) \o Destructor(members[r]))
    /\ UNCHANGED <<inbox, remote>>

\* read_all fails when the peer has closed and nothing is left to read, or when
\* it closed with something unread, which resets the connection.
ReadFails(r, socket) ==
    /\ ~PeerOpen(r, socket)
    /\ inbox[r][socket] = <<>> \/ inbox[peer[r][socket]][Other(socket)] # <<>>
    /\ Fail(r, PG_ERR_TRANSPORT, CloseSockets(Sockets) \o Destructor(members[r]))
    /\ UNCHANGED <<inbox, remote>>

TakeMessage(r, socket) ==
    /\ inbox[r][socket] # <<>>
    /\ inbox' = [inbox EXCEPT ![r][socket] = Tail(@)]

-----------------------------------------------------------------------------
(* Queue pair numbers and the barrier: both are written before either is     *)
(* read.                                                                     *)

WriteRecord(r) ==
    /\ \/ /\ stage[r] = "writeNext"
          /\ Write(r, "next_socket", ExchangeData(<<r, "qp_next">>), "writePrevious")
       \/ /\ stage[r] = "writePrevious"
          /\ Write(r, "previous_socket", ExchangeData(<<r, "qp_prev">>), "readNext")
    /\ UNCHANGED <<backlog, peer, remote, dest, faults>>

ReadRecord(r) ==
    \E socket \in Sockets :
        /\ stage[r] = IF socket = "next_socket" THEN "readNext" ELSE "readPrevious"
        /\ \/ /\ TakeMessage(r, socket)
              /\ remote' = [remote EXCEPT ![r][socket] = Head(inbox[r][socket]).qp]
              /\ Goto(r, IF socket = "next_socket" THEN "readPrevious" ELSE "transition")
           \/ ReadFails(r, socket)
        /\ UNCHANGED <<live, members, backlog, peer, dest, faults>>

\* transition_qp_to_rts for qp_next, then for qp_prev.
TransitionToRts(r) ==
    /\ stage[r] = "transition"
    /\ \/ /\ dest' = [dest EXCEPT ![r] = [qp_next |-> remote[r].next_socket,
                                         qp_prev |-> remote[r].previous_socket]]
          /\ Goto(r, "readyNext")
          /\ UNCHANGED faults
       \/ /\ Fault(r)
          /\ Fail(r, PG_ERR_TRANSPORT, CloseSockets(Sockets) \o Destructor(members[r]))
          /\ \/ UNCHANGED dest
             \/ dest' = [dest EXCEPT ![r].qp_next = remote[r].next_socket]
    /\ UNCHANGED <<live, members, backlog, peer, inbox, remote>>

WriteReady(r) ==
    /\ \/ stage[r] = "readyNext" /\ Write(r, "next_socket", Ready, "readyPrevious")
       \/ stage[r] = "readyPrevious" /\ Write(r, "previous_socket", Ready, "awaitNext")
    /\ UNCHANGED <<backlog, peer, remote, dest, faults>>

\* Mistake: only the next rank's ready byte is awaited.
ReadReady_next_only(r) ==
    /\ stage[r] = "awaitNext"
    /\ \/ /\ TakeMessage(r, "next_socket")
          /\ Goto(r, "configure")
          /\ members' = [members EXCEPT ![r] = @ \cup Sockets]
          /\ UNCHANGED remote
       \/ ReadFails(r, "next_socket") /\ UNCHANGED members
    /\ UNCHANGED <<live, backlog, peer, dest, faults>>

\* The two ready bytes; after the second set_control_sockets makes the
\* transport the sockets' owner.  The code compares both bytes only after the
\* second read: a difference only if something else than Ready could come first,
\* which it cannot (StreamInv in RingBootstrapProofs).
ReadReady(r) ==
    \E socket \in Sockets :
        /\ stage[r] = IF socket = "next_socket" THEN "awaitNext" ELSE "awaitPrevious"
        /\ \/ /\ TakeMessage(r, socket)
              /\ IF Head(inbox[r][socket]) # Ready
                 THEN /\ Fail(r, PG_ERR_TRANSPORT,
                              CloseSockets(Sockets) \o Destructor(members[r]))
                      /\ UNCHANGED members
                 ELSE IF socket = "next_socket"
                 THEN Goto(r, "awaitPrevious") /\ UNCHANGED members
                 ELSE /\ Goto(r, "configure")
                      /\ members' = [members EXCEPT ![r] = @ \cup Sockets]
              /\ UNCHANGED remote
           \/ ReadFails(r, socket) /\ UNCHANGED members
        /\ UNCHANGED <<live, backlog, peer, dest, faults>>

-----------------------------------------------------------------------------
(* The handle.                                                               *)

\* PG_PIPELINE_PIECE_BYTES, PG_MAX_INFLIGHT and PG_TRANSFER_MODE are parsed.
Configure(r) ==
    /\ stage[r] = "configure"
    /\ \/ Goto(r, "create") /\ UNCHANGED faults
       \/ Fault(r) /\ Fail(r, PG_ERR_INVALID_ARGUMENT, Destructor(members[r]))
    /\ UNCHANGED <<live, members, links_vars>>

\* pg_create_from_transport takes ownership only when it succeeds.
CreateHandle(r) ==
    /\ stage[r] = "create"
    /\ \/ /\ stage'  = [stage EXCEPT ![r] = "connected"]
          /\ status' = [status EXCEPT ![r] = PG_SUCCESS]
          /\ Own(r, {"handle", "collectives"})
          /\ UNCHANGED <<freeing, faults>>
       \/ \E created \in {{}, {"handle"}} :
             /\ Fault(r)
             /\ Own(r, created)
             /\ Fail(r, PG_ERR_NO_MEMORY, One("handle", created) \o Destructor(members[r]))
    /\ UNCHANGED <<members, links_vars>>

\* The group is used: the first receive announces itself to the previous rank.
Announce(r) ==
    /\ stage[r] = "connected"
    /\ \/ /\ PeerOpen(r, "previous_socket")
          /\ inbox' = [inbox EXCEPT ![peer[r].previous_socket].next_socket =
                          Append(@, Descriptor)]
          /\ Goto(r, "running")
          /\ UNCHANGED <<live, members>>
       \/ /\ ~PeerOpen(r, "previous_socket")
          /\ \/ Goto(r, "running") /\ UNCHANGED <<live, members>>
             \/ Dies(r)
          /\ UNCHANGED inbox
    /\ UNCHANGED <<backlog, peer, remote, dest, faults>>

\* pg_close.
Close(r) ==
    /\ stage[r] \in {"connected", "running"}
    /\ stage'   = [stage EXCEPT ![r] = "freeing"]
    /\ freeing' = [freeing EXCEPT ![r] =
                      <<"collectives">> \o Destructor(members[r]) \o <<"handle">>]
    /\ UNCHANGED <<status, live, members, links_vars, faults>>

-----------------------------------------------------------------------------
Run(r) ==
    \/ CheckArguments(r) \/ GetDeviceList(r) \/ OpenDevice(r) \/ AllocPd(r) \/ QueryPort(r)
    \/ CreateTransport(r) \/ CreateQps(r)
    \/ Connect(r) \/ Listen(r) \/ Accept(r)
    \/ WriteRecord(r) \/ ReadRecord(r) \/ TransitionToRts(r)
    \/ WriteReady(r) \/ ReadReady(r)
    \/ Configure(r) \/ CreateHandle(r)
    \/ Free(r) \/ Return(r)

Next ==
    \E r \in Ranks : Run(r) \/ GiveUp(r) \/ Announce(r) \/ Close(r) \/ Crash(r)

\* A process keeps running.  Nothing makes it give up connecting, die, or use
\* and close the group.
Spec == Init /\ [][Next]_vars

FairSpec == Spec /\ \A r \in Ranks : WF_vars(Run(r))

-----------------------------------------------------------------------------
(* Safety.                                                                   *)

\* Rank r has read both ready bytes and has not failed since.
PassedBarrier(r) == status[r] = PG_SUCCESS \/ stage[r] \in {"configure", "create"}

\* The comment at process_group_api.cpp:429 and what it is for: when a rank is
\* through the barrier, its queue pairs and those of both neighbours have
\* reached RTS, and each is connected to the very queue pair that is connected
\* to it, so nothing it sends can meet a queue pair that is not ready or is
\* another's.
ReadyBarrier ==
    \A r \in Ranks : PassedBarrier(r) =>
        /\ dest[r] = [qp_next |-> <<NextRank(r), "qp_prev">>,
                      qp_prev |-> <<PrevRank(r), "qp_next">>]
        /\ dest[NextRank(r)].qp_prev = <<r, "qp_next">>
        /\ dest[PrevRank(r)].qp_next = <<r, "qp_prev">>
        /\ dest[NextRank(r)].qp_next # NoQp /\ dest[PrevRank(r)].qp_prev # NoQp

\* What a rank has read of each socket ends where the collective's part begins:
\* a connected rank will find nothing but descriptors from the next rank, and
\* nothing at all from the previous one (the exchange and the barrier share the
\* sockets with post_receive_previous and post_send_next).
ControlStreamClean ==
    \A r \in Ranks : PassedBarrier(r) /\ stage[r] # "closed" =>
        /\ inbox[r]["previous_socket"] = <<>>
        /\ \A k \in 1..Len(inbox[r]["next_socket"]) :
              inbox[r]["next_socket"][k] = Descriptor

\* What must be gone before a resource is given back.
Users(resource) ==
    CASE resource = "context" -> {"collectives", "pd", "cq"} \cup QueuePairs
      [] resource \in {"pd", "cq"} -> {"collectives"} \cup QueuePairs
      [] resource \in Sockets \cup QueuePairs \cup {"handle"} -> {"collectives"}
      [] OTHER -> {}

\* Whatever call fails, and on closing too: what is given back is still there,
\* so nothing is freed twice, and nothing that is still there uses it
\* (DESIGN.md section 3, verbs_transport.cpp:231).
FreedInOrder ==
    \A r \in Ranks : freeing[r] # <<>> =>
        /\ Head(freeing[r]) \in live[r]
        /\ Users(Head(freeing[r])) \cap live[r] = {}

\* A rank whose connect_process_group succeeded has all it needs and no list
\* of devices, all of the device and both sockets owned by the transport; one
\* that closed its group has nothing left.  One whose call failed has nothing
\* left either, at whatever point it failed but one: where there is no device
\* it keeps the empty list of them (process_group_api.cpp:287, which returns
\* before ibv_free_device_list).
OwnsAllOrNothing ==
    \A r \in Ranks :
        /\ stage[r] \in {"connected", "running"} =>
              /\ live[r] = Resources \ Lists
              /\ members[r] = live[r] \ {"handle", "collectives"}
        /\ stage[r] \in {"closed", "dead"} => live[r] = {}
        /\ stage[r] = "returned" => live[r] \subseteq {"empty_list"}

\* connect_process_group fails, or is killed, only if somewhere a call failed
\* or gave up by itself or a process died: how the ranks interleave, one
\* closing its group while its neighbours still wait at the barrier included,
\* is never the reason.
FailsForAReason ==
    \A r \in Ranks : (status[r] \in Errors \/ (stage[r] = "dead" /\ status[r] = Pending))
                         => faults # {}

-----------------------------------------------------------------------------
(* Liveness.                                                                 *)

Returned(r) == stage[r] = "dead" \/ status[r] = PG_SUCCESS \/ stage[r] = "returned"

\* With every rank started and none failing or giving up, every call of
\* connect_process_group succeeds: for odd sizes too the order of connecting
\* and accepting has no cycle, nor have the exchange (comment at
\* process_group_api.cpp:398) and the barrier.
EveryRankConnects ==
    <>(faults # {} \/ \A r \in Ranks : status[r] = PG_SUCCESS)

\* Once the TCP ring is complete no rank can be left behind: whoever fails or
\* dies, all calls of connect_process_group return.
RingReturns ==
    (\A r \in Ranks : Sockets \subseteq live[r]) ~> (\A r \in Ranks : Returned(r))

=============================================================================
